---- MODULE Spec2Model ----
(***************************************************************************)
(* A model of the Abra tool chain: the Type model and its subtyping        *)
(* relation (compiler/typecheck.rs), the two-pass type checker, the        *)
(* AST-to-bytecode compiler (compiler/compile.rs) and the bytecode machine *)
(* (runtime/vm.rs).                                                        *)
(***************************************************************************)
EXTENDS Integers, Sequences, FiniteSets, TLC

VARIABLES
    tyS, tyT, tyU,      \* three Type values handed to is_subtype_of
    evaluated,          \* TRUE once is_subtype_of has been applied to them
    rel,                \* the answers of is_subtype_of, by pair of types
    ast,                \* the parsed program: a sequence of items
    mode,               \* "pipeline": compilation_pipepline, then run (cli);
                        \* "direct": compile_from_ast, then run (main.rs, test.rs)
    code,               \* the Code the compiler produced
    pc,                 \* position of the tool chain
    messages,           \* TypeChecker.messages
    abra_types,         \* TypeChecker.abra_types
    global_functions,   \* TypeChecker.global_functions
    visited,            \* the bodies check_statement_block was called on
    pipeline_result,    \* what compilation_pipepline returned
    rsi,                \* registers[10], the stack index
    rbi,                \* registers[11], the bytecode index
    stack,              \* the written prefix of the operand stack
    stack_frames,       \* the call frames
    vm_status,          \* "off", "running", "exited", "error", "panic", "hang"
    vm_fault,           \* what stopped the machine
    exit_code,          \* what run() returned
    executed,           \* the instruction next() executed last, and where
    allocs              \* the RefHeader allocations, in order of creation

typeVars == <<tyS, tyT, tyU, evaluated, rel>>

checkVars == <<messages, abra_types, global_functions, visited, pipeline_result>>

vmVars == <<rsi, rbi, stack, stack_frames, vm_status, vm_fault, exit_code, executed, allocs>>

vars == <<typeVars, ast, mode, code, pc, checkVars, vmVars>>

(***************************************************************************)
(* Bounds.                                                                 *)
(***************************************************************************)
NumClasses == 1

MaxOperand == 5

MaxLoop == 3

(***************************************************************************)
(* Type (compiler/typecheck.rs).                                           *)
(***************************************************************************)
NullType == [k |-> "Null"]

Primitive(p) == [k |-> "Primitive", p |-> p]

INTEGER_TYPE == Primitive("Integer")

FLOAT_TYPE == Primitive("Float")

CHAR_TYPE == Primitive("Char")

BOOL_TYPE == Primitive("Bool")

STRING_TYPE == Primitive("String")

array(t) == [k |-> "Array", t |-> t]

map(key, val) == [k |-> "Map", key |-> key, val |-> val]

heap(t) == [k |-> "HeapValue", t |-> t]

or(t1, t2) == [k |-> "Or", a |-> t1, b |-> t2]

abra(name) == [k |-> "Abra", name |-> name]

RECURSIVE is_subtype_of_NoNullTop(_, _)
\* is_subtype_of without the rule that makes every type a subtype of Null.
is_subtype_of_NoNullTop(self, other) ==
    IF self = other THEN TRUE
    ELSE IF self.k = "Null" THEN TRUE
    ELSE IF other.k = "Or"
        THEN is_subtype_of_NoNullTop(self, other.a) \/ is_subtype_of_NoNullTop(self, other.b)
    ELSE IF self.k = "Or"
        THEN is_subtype_of_NoNullTop(self.a, other) /\ is_subtype_of_NoNullTop(self.b, other)
    ELSE CASE self.k = "Primitive" /\ other.k = "Primitive" -> self.p = other.p
           [] self.k = "Abra" /\ other.k = "Abra" -> self.name = other.name
           [] self.k = "Array" /\ other.k = "Array" -> is_subtype_of_NoNullTop(self.t, other.t)
           [] self.k = "Map" /\ other.k = "Map" ->
                /\ is_subtype_of_NoNullTop(self.key, other.key)
                /\ is_subtype_of_NoNullTop(other.key, self.key)
                /\ is_subtype_of_NoNullTop(self.val, other.val)
           [] self.k = "HeapValue" /\ other.k = "HeapValue" ->
                is_subtype_of_NoNullTop(self.t, other.t)
           [] OTHER -> FALSE

RECURSIVE is_subtype_of_AndUnion(_, _)
\* is_subtype_of with the union-on-the-right rule asking for both branches.
is_subtype_of_AndUnion(self, other) ==
    IF self = other THEN TRUE
    ELSE IF self.k = "Null" THEN TRUE
    ELSE IF other.k = "Null" THEN TRUE
    ELSE IF other.k = "Or"
        THEN is_subtype_of_AndUnion(self, other.a) /\ is_subtype_of_AndUnion(self, other.b)
    ELSE IF self.k = "Or"
        THEN is_subtype_of_AndUnion(self.a, other) /\ is_subtype_of_AndUnion(self.b, other)
    ELSE CASE self.k = "Primitive" /\ other.k = "Primitive" -> self.p = other.p
           [] self.k = "Abra" /\ other.k = "Abra" -> self.name = other.name
           [] self.k = "Array" /\ other.k = "Array" -> is_subtype_of_AndUnion(self.t, other.t)
           [] self.k = "Map" /\ other.k = "Map" ->
                /\ is_subtype_of_AndUnion(self.key, other.key)
                /\ is_subtype_of_AndUnion(other.key, self.key)
                /\ is_subtype_of_AndUnion(self.val, other.val)
           [] self.k = "HeapValue" /\ other.k = "HeapValue" ->
                is_subtype_of_AndUnion(self.t, other.t)
           [] OTHER -> FALSE

RECURSIVE is_subtype_of_UnionLeftAny(_, _)
\* is_subtype_of with the union-on-the-left rule asking for one branch only.
is_subtype_of_UnionLeftAny(self, other) ==
    IF self = other THEN TRUE
    ELSE IF self.k = "Null" THEN TRUE
    ELSE IF other.k = "Null" THEN TRUE
    ELSE IF other.k = "Or"
        THEN is_subtype_of_UnionLeftAny(self, other.a) \/ is_subtype_of_UnionLeftAny(self, other.b)
    ELSE IF self.k = "Or"
        THEN is_subtype_of_UnionLeftAny(self.a, other) \/ is_subtype_of_UnionLeftAny(self.b, other)
    ELSE CASE self.k = "Primitive" /\ other.k = "Primitive" -> self.p = other.p
           [] self.k = "Abra" /\ other.k = "Abra" -> self.name = other.name
           [] self.k = "Array" /\ other.k = "Array" ->
                is_subtype_of_UnionLeftAny(self.t, other.t)
           [] self.k = "Map" /\ other.k = "Map" ->
                /\ is_subtype_of_UnionLeftAny(self.key, other.key)
                /\ is_subtype_of_UnionLeftAny(other.key, self.key)
                /\ is_subtype_of_UnionLeftAny(self.val, other.val)
           [] self.k = "HeapValue" /\ other.k = "HeapValue" ->
                is_subtype_of_UnionLeftAny(self.t, other.t)
           [] OTHER -> FALSE

RECURSIVE is_subtype_of(_, _)
is_subtype_of(self, other) ==
    IF self = other THEN TRUE
    ELSE IF self.k = "Null" THEN TRUE
    ELSE IF other.k = "Null" THEN TRUE
    ELSE IF other.k = "Or"
        THEN is_subtype_of(self, other.a) \/ is_subtype_of(self, other.b)
    ELSE IF self.k = "Or"
        THEN is_subtype_of(self.a, other) /\ is_subtype_of(self.b, other)
    ELSE CASE self.k = "Primitive" /\ other.k = "Primitive" -> self.p = other.p
           [] self.k = "Abra" /\ other.k = "Abra" -> self.name = other.name
           [] self.k = "Array" /\ other.k = "Array" -> is_subtype_of(self.t, other.t)
           [] self.k = "Map" /\ other.k = "Map" ->
                /\ is_subtype_of(self.key, other.key)
                /\ is_subtype_of(other.key, self.key)
                /\ is_subtype_of(self.val, other.val)
           [] self.k = "HeapValue" /\ other.k = "HeapValue" -> is_subtype_of(self.t, other.t)
           [] OTHER -> FALSE

(***************************************************************************)
(* Runtime values (runtime/value.rs) and the AST (frontend/ast.rs).        *)
(***************************************************************************)
NullValue == [t |-> "Null"]

Integer(n) == [t |-> "Integer", v |-> n]

Bool(b) == [t |-> "Bool", v |-> b]

StringValue(s) == [t |-> "String", v |-> s]

\* Value::Ref: the handle names the allocation it points towards.
Ref(towards) == [t |-> "Ref", towards |-> towards]

\* Expressions.
Lit(v) == [e |-> "Literal", lit |-> "Value", v |-> v]

Ident(name) == [e |-> "Literal", lit |-> "Identifier", name |-> name]

Unary(op, x) == [e |-> "Unary", op |-> op, x |-> x]

Binary(op, lhs, rhs) == [e |-> "Binary", op |-> op, lhs |-> lhs, rhs |-> rhs]

Grouping(x) == [e |-> "Grouping", x |-> x]

Call(func, args) == [e |-> "Call", func |-> func, args |-> args]

Get(member, base) == [e |-> "Get", member |-> member, x |-> base]

Instance(ty, args) == [e |-> "Instance", ty |-> ty, args |-> args]

\* Statements.  An absent else block, loop body or return expression is
\* an Option::None: the has_* field is FALSE.
Declare(name, ty, expr) == [s |-> "Declare", name |-> name, ty |-> ty, expr |-> expr]

SetVar(name, expr) == [s |-> "Set", name |-> name, expr |-> expr]

ExprStmt(expr) == [s |-> "Expression", expr |-> expr]

PrintStmt(expr) == [s |-> "Print", expr |-> expr]

Return(expr) == [s |-> "Return", has_expr |-> TRUE, expr |-> expr]

ReturnNone == [s |-> "Return", has_expr |-> FALSE]

If(cond, block) == [s |-> "If", cond |-> cond, block |-> block, has_else |-> FALSE]

IfElse(cond, block, els) ==
    [s |-> "If", cond |-> cond, block |-> block, has_else |-> TRUE, els |-> els]

For(init, cond, incr, body) ==
    [s |-> "For", init |-> init, cond |-> cond, incr |-> incr,
     has_body |-> TRUE, body |-> body]

NullStmt == [s |-> "Null"]

\* Items.
Parameter(name, ty) == [name |-> name, ty |-> ty]

Function(name, params, return_type, body) ==
    [i |-> "Function", name |-> name, params |-> params,
     return_type |-> return_type, body |-> body]

Class(name, variables, functions) ==
    [i |-> "Class", name |-> name, variables |-> variables, functions |-> functions]

(***************************************************************************)
(* The compiler (compiler/compile.rs).  A compiler state is the record     *)
(* [bytecode, labels, label_iter]; instruction index n of the source is    *)
(* bytecode[n + 1] here.                                                   *)
(***************************************************************************)
Instr(op) == [op |-> op]

PUSH(v) == [op |-> "PUSH", v |-> v]

CALL(name, argc) == [op |-> "CALL", name |-> name, argc |-> argc]

RET(has_value) == [op |-> "RET", has_value |-> has_value]

JITL(label) == [op |-> "JITL", label |-> label]

JMPTO(label) == [op |-> "JMPTO", label |-> label]

DEFVAR(name, ty) == [op |-> "DEFVAR", name |-> name, ty |-> ty]

DROPVAR(name) == [op |-> "DROPVAR", name |-> name]

SAVEVARLOCAL(name) == [op |-> "SAVEVARLOCAL", name |-> name]

GETVARLOCAL(name) == [op |-> "GETVARLOCAL", name |-> name]

\* ByteCode::INSTANCE
InstanceOp(typ, argc) == [op |-> "INSTANCE", typ |-> typ, argc |-> argc]

CompilerNew == [bytecode |-> <<>>, labels |-> <<>>, label_iter |-> 0]

Emit(c, instr) == [c EXCEPT !.bytecode = Append(@, instr)]

Label(c, name, index) == [c EXCEPT !.labels = Append(@, <<name, index>>)]

\* format!("_{}", n)
LabelText(n) == <<"_0", "_1", "_2", "_3", "_4", "_5", "_6", "_7", "_8", "_9">>[n + 1]

\* get_next_label: the label text, and the compiler with the counter advanced.
get_next_label(c) ==
    [lbl |-> LabelText(c.label_iter), c |-> [c EXCEPT !.label_iter = @ + 1]]

\* The instruction a binary operator lowers to; none for %, &, |, ^ and !=.
BinaryInstr(op) ==
    CASE op = "ADD" -> <<Instr("ADD")>>
      [] op = "SUB" -> <<Instr("SUB")>>
      [] op = "DIV" -> <<Instr("DIV")>>
      [] op = "MULT" -> <<Instr("MULT")>>
      [] op = "EQ" -> <<Instr("EQUALS")>>
      [] op = "GE" -> <<Instr("EQGREAT")>>
      [] op = "LE" -> <<Instr("EQLESS")>>
      [] op = "LT" -> <<Instr("LESSER")>>
      [] op = "GT" -> <<Instr("GREATER")>>
      [] OTHER -> <<>>

RECURSIVE compile_expression(_, _)
RECURSIVE compile_args(_, _, _)

compile_args(c, args, n) ==
    IF n > Len(args) THEN c
    ELSE compile_args(compile_expression(c, args[n]), args, n + 1)

compile_expression(c, expr) ==
    CASE expr.e = "Get" ->
            Emit(Emit(compile_expression(c, expr.x), GETVARLOCAL(expr.member)),
                 Instr("GETFROMREF"))
      [] expr.e = "Literal" ->
            IF expr.lit = "Identifier"
            THEN Emit(c, GETVARLOCAL(expr.name))
            ELSE Emit(c, PUSH(expr.v))
      [] expr.e = "Binary" ->
            LET c1 == compile_expression(c, expr.rhs)
                c2 == compile_expression(c1, expr.lhs)
            IN  [c2 EXCEPT !.bytecode = @ \o BinaryInstr(expr.op)]
      [] expr.e = "Call" ->
            Emit(compile_args(c, expr.args, 1), CALL(expr.func, Len(expr.args)))
      [] expr.e = "Unary" ->
            Emit(compile_expression(c, expr.x),
                 IF expr.op = "NEG" THEN Instr("NEGATE") ELSE Instr("NOT"))
      [] expr.e = "Grouping" -> compile_expression(c, expr.x)
      [] expr.e = "Instance" -> c

\* The DROPVAR instructions for a list of names, in order.
RECURSIVE EmitDrops(_, _, _)
EmitDrops(c, names, n) ==
    IF n > Len(names) THEN c
    ELSE EmitDrops(Emit(c, DROPVAR(names[n])), names, n + 1)

\* compile_body that never emits the end-of-scope DROPVARs.
RECURSIVE compile_body_NoDrop(_, _, _)
RECURSIVE compile_body(_, _, _)
RECURSIVE compile_stmts(_, _, _, _)
RECURSIVE compile_statement(_, _)

\* The loop of compile_body: each statement in turn, collecting the names
\* the statements hand back.
compile_stmts(c, stmts, n, names) ==
    IF n > Len(stmts) THEN [c |-> c, out |-> names]
    ELSE LET rest(r) == compile_stmts(r.c, stmts, n + 1, names \o r.out)
         IN  rest(compile_statement(c, stmts[n]))

compile_body_NoDrop(c, stmts, owns_scope) == compile_stmts(c, stmts, 1, <<>>)

\* compile_body(stmts, None) owns its scope (owns_scope) and drops what it
\* declared; compile_body(stmts, Some(vec)) hands the names to the caller's
\* vec (out) and emits no drop.
compile_body(c, stmts, owns_scope) ==
    LET end_of_scope(r) ==
            IF owns_scope
            THEN [c |-> EmitDrops(r.c, r.out, 1), out |-> <<>>]
            ELSE r
    IN  end_of_scope(compile_stmts(c, stmts, 1, <<>>))

\* compile_statement: the compiler after the statement, and the names the
\* statement pushes to its out parameter.
compile_statement(c, stmt) ==
    CASE stmt.s = "Declare" ->
            [c |-> Emit(compile_expression(c, stmt.expr), DEFVAR(stmt.name, stmt.ty)),
             out |-> <<stmt.name>>]
      [] stmt.s = "If" ->
            \* In source order: the condition, NEGATE, JITL l1, the block with
            \* its drops, then either label l1, or label l1 past the JMPTO l2,
            \* the JMPTO l2, the else block with its drops and label l2.
            LET close(c6, lbl) ==
                    [c |-> Label(c6, lbl, Len(c6.bytecode)), out |-> <<>>]
                else_block(l2) ==
                    close(compile_body(Emit(l2.c, JMPTO(l2.lbl)), stmt.els, TRUE).c,
                          l2.lbl)
                after_block(c3, lbl) ==
                    IF ~stmt.has_else
                    THEN close(c3, lbl)
                    ELSE else_block(get_next_label(Label(c3, lbl, Len(c3.bytecode) + 1)))
                block(l1) ==
                    after_block(compile_body(Emit(l1.c, JITL(l1.lbl)), stmt.block, TRUE).c,
                                l1.lbl)
            IN  block(get_next_label(Emit(compile_expression(c, stmt.cond),
                                          Instr("NEGATE"))))
      [] stmt.s = "For" ->
            \* In source order: the init statement, the index idx of the
            \* condition, the condition, NEGATE, JITL l1, the body, the
            \* increment, JMPTO l2, label l1, the drops of the loop's
            \* variables, label l2 at idx.  loop is [l1, idx, vars].
            LET close(c6, l2, loop, out) ==
                    [c |-> Label(EmitDrops(Label(c6, loop.l1, Len(c6.bytecode)),
                                           loop.vars, 1),
                                 l2, loop.idx),
                     out |-> out]
                jump_back(l2, loop, out) ==
                    close(Emit(l2.c, JMPTO(l2.lbl)), l2.lbl, loop, out)
                after_incr(r5, loop) == jump_back(get_next_label(r5.c), loop, r5.out)
                after_body(r4, loop) ==
                    after_incr(compile_statement(r4.c, stmt.incr),
                               [loop EXCEPT !.vars = @ \o r4.out])
                body(c3, loop) ==
                    after_body(IF stmt.has_body
                               THEN compile_body(c3, stmt.body, FALSE)
                               ELSE [c |-> c3, out |-> <<>>],
                               loop)
                jump_out(l1, idx, init_vars) ==
                    body(Emit(l1.c, JITL(l1.lbl)),
                         [l1 |-> l1.lbl, idx |-> idx, vars |-> init_vars])
                cond(r1) ==
                    jump_out(get_next_label(Emit(compile_expression(r1.c, stmt.cond),
                                                 Instr("NEGATE"))),
                             Len(r1.c.bytecode), r1.out)
            IN  cond(compile_statement(c, stmt.init))
      [] stmt.s = "Return" ->
            IF stmt.has_expr
            THEN [c |-> Emit(compile_expression(c, stmt.expr), RET(TRUE)), out |-> <<>>]
            ELSE [c |-> Emit(c, RET(FALSE)), out |-> <<>>]
      [] stmt.s = "Set" ->
            [c |-> Emit(compile_expression(c, stmt.expr), SAVEVARLOCAL(stmt.name)),
             out |-> <<>>]
      [] stmt.s = "Expression" -> [c |-> compile_expression(c, stmt.expr), out |-> <<>>]
      [] stmt.s = "Print" -> [c |-> compile_expression(c, stmt.expr), out |-> <<>>]
      [] stmt.s = "Null" -> [c |-> c, out |-> <<>>]

\* The callee prologue: DEFVAR for each parameter, last parameter first.
RECURSIVE EmitParams(_, _, _)
EmitParams(c, params, n) ==
    IF n < 1 THEN c
    ELSE EmitParams(Emit(c, DEFVAR(params[n].name, params[n].ty)), params, n - 1)

\* One function or method: its label, its prologue, its body.
compile_function(c, label, func) ==
    LET c1 == Label(c, label, Len(c.bytecode))
        c2 == EmitParams(c1, func.params, Len(func.params))
    IN  compile_body(c2, func.body, FALSE).c

\* format!("{}::{}", class, method)
MethodLabel(class, method) ==
    CASE class = "K" /\ method = "m" -> "K::m"
      [] class = "K" /\ method = "init" -> "K::init"
      [] OTHER -> "?::?"

RECURSIVE compile_methods(_, _, _)
compile_methods(c, class, n) ==
    IF n > Len(class.functions) THEN c
    ELSE compile_methods(
            compile_function(c, MethodLabel(class.name, class.functions[n].name),
                             class.functions[n]),
            class, n + 1)

RECURSIVE compile_items(_, _, _)
compile_items(c, items, n) ==
    IF n > Len(items) THEN c
    ELSE compile_items(
            IF items[n].i = "Function"
            THEN compile_function(c, items[n].name, items[n])
            ELSE compile_methods(c, items[n], 1),
            items, n + 1)

\* compile_from_ast on a fresh Compiler, and the Code taken from it.
compile_from_ast(items) ==
    LET c0 == Emit(Emit(Label(CompilerNew, "_start", 0), CALL("main", 0)), Instr("EXIT"))
        code_of(c1) == [bytecode |-> c1.bytecode, labels |-> c1.labels]
    IN  code_of(compile_items(c0, items, 1))

(***************************************************************************)
(* The bytecode machine (runtime/vm.rs).  A machine m is the record        *)
(* [rsi, rbi, stack, stack_frames, allocs]; an outcome is [st, m, fault]   *)
(* with st "ok" (Ok), "error" (Err: run() prints it and returns 1) or      *)
(* "panic" (the process dies: an index out of range, a missing key, an     *)
(* unwrap).                                                                *)
(***************************************************************************)
StackSize == 1028

Machine ==
    [rsi |-> rsi, rbi |-> rbi, stack |-> stack, stack_frames |-> stack_frames, allocs |-> allocs]

Ok(m) == [st |-> "ok", m |-> m, fault |-> "none"]

Err(m, fault) == [st |-> "error", m |-> m, fault |-> fault]

Panic(m, fault) == [st |-> "panic", m |-> m, fault |-> fault]

NoFrames == "Attempted to access stack frames while none are allocated!"

UndefinedVariable == "Attempted to access an undefined variable!"

\* stack[n] of the source; a slot never written still holds Value::Null.
StackAt(stk, n) == IF n + 1 <= Len(stk) THEN stk[n + 1] ELSE NullValue

StackPut(stk, n, v) ==
    IF n + 1 <= Len(stk) THEN [stk EXCEPT ![n + 1] = v] ELSE Append(stk, v)

\* pop_from_stack: stack_index - 1 underflows at 0 and the index is out of range.
pop_from_stack(m) ==
    IF m.rsi < 1 \/ m.rsi > StackSize
    THEN [st |-> "panic", m |-> m, fault |-> "stack index out of range", v |-> NullValue]
    ELSE [st |-> "ok", m |-> [m EXCEPT !.rsi = @ - 1], fault |-> "none",
          v |-> StackAt(m.stack, m.rsi - 1)]

push_to_stack(m, v) ==
    IF m.rsi >= StackSize
    THEN Panic(m, "stack index out of range")
    ELSE Ok([m EXCEPT !.stack = StackPut(@, m.rsi, v), !.rsi = @ + 1])

\* Two pops in a row: a is popped first, b second.
Pop2(m) ==
    LET p1 == pop_from_stack(m)
    IN  IF p1.st # "ok" THEN [st |-> p1.st, m |-> p1.m, fault |-> p1.fault,
                              a |-> NullValue, b |-> NullValue]
        ELSE LET p2 == pop_from_stack(p1.m)
             IN  [st |-> p2.st, m |-> p2.m, fault |-> p2.fault, a |-> p1.v, b |-> p2.v]

\* value_implements!: Integer with Integer, Float with Float (the floats of
\* the model are whole numbers), anything else gives Value::Null.
ValueArith(op, a, b) ==
    IF a.t = b.t /\ a.t \in {"Integer", "Float"}
    THEN [t |-> a.t,
          v |-> CASE op = "ADD" -> a.v + b.v
                  [] op = "SUB" -> a.v - b.v
                  [] op = "MULT" -> a.v * b.v]
    ELSE NullValue

\* impl PartialEq for Value
ValueEq(a, b) ==
    CASE a.t = "Bool" /\ b.t = "Bool" -> a.v = b.v
      [] a.t = "Integer" /\ b.t = "Integer" -> a.v = b.v
      [] a.t = "Float" /\ b.t = "Float" -> a.v = b.v
      [] a.t = "Char" /\ b.t = "Char" -> a.v = b.v
      [] OTHER -> FALSE

\* impl PartialOrd for Value: lt and gt (false < true).
ValueLt(a, b) ==
    CASE a.t = "Bool" /\ b.t = "Bool" -> ~a.v /\ b.v
      [] a.t = "Integer" /\ b.t = "Integer" -> a.v < b.v
      [] OTHER -> FALSE

ValueGt(a, b) ==
    CASE a.t = "Bool" /\ b.t = "Bool" -> a.v /\ ~b.v
      [] a.t = "Integer" /\ b.t = "Integer" -> a.v > b.v
      [] OTHER -> FALSE

\* cast_to_bool: [ok, v]
cast_to_bool(a) ==
    CASE a.t = "Null" -> [ok |-> FALSE, v |-> FALSE]
      [] a.t = "Bool" -> [ok |-> TRUE, v |-> a.v]
      [] a.t = "Integer" -> [ok |-> TRUE, v |-> a.v # 0]
      [] a.t = "Float" -> [ok |-> TRUE, v |-> a.v = 0]
      [] a.t = "String" -> [ok |-> TRUE, v |-> a.v # ""]

\* labels of the machine: the HashMap collected from the label list, where
\* a later entry of the same name replaces an earlier one.
LabelEntries(labels, name) == {n \in 1..Len(labels) : labels[n][1] = name}

HasLabel(labels, name) == LabelEntries(labels, name) # {}

LabelIndex(labels, name) ==
    labels[CHOOSE n \in LabelEntries(labels, name) :
                \A k \in LabelEntries(labels, name) : k <= n][2]

StackFrameNew(bytecode_ret_index, stack_ret_index, name) ==
    [name |-> name, local_variables |-> [x \in {} |-> NullValue],
     bytecode_return_index |-> bytecode_ret_index,
     stack_return_index |-> stack_ret_index]

\* HashMap insert / remove on a frame's local variables.
MapInsert(f, key, v) == [x \in DOMAIN f \cup {key} |-> IF x = key THEN v ELSE f[x]]

MapRemove(f, key) == [x \in DOMAIN f \ {key} |-> f[x]]

TopFrame(m) == m.stack_frames[Len(m.stack_frames)]

SetLocals(m, locals) ==
    [m EXCEPT !.stack_frames[Len(m.stack_frames)].local_variables = locals]

\* unwind_stack
\* unwind_stack that leaves the call frame on the frame stack.
unwind_stack_KeepFrame(m) ==
    IF m.stack_frames = <<>> THEN Err(m, NoFrames)
    ELSE Ok([m EXCEPT !.rbi = TopFrame(m).bytecode_return_index,
                      !.rsi = TopFrame(m).stack_return_index])

unwind_stack(m) ==
    IF m.stack_frames = <<>> THEN Err(m, NoFrames)
    ELSE LET frame == TopFrame(m)
             cleared == [n \in 1..Len(m.stack) |->
                            IF n - 1 >= frame.stack_return_index /\ n - 1 < m.rsi
                            THEN NullValue ELSE m.stack[n]]
         IN  Ok([m EXCEPT !.stack_frames = SubSeq(@, 1, Len(@) - 1),
                          !.rbi = frame.bytecode_return_index,
                          !.stack = cleared,
                          !.rsi = frame.stack_return_index])

(***************************************************************************)
(* The inbuilt functions (runtime/inbuilt.rs).                             *)
(***************************************************************************)
InbuiltNames == {"print", "sqrt", "exp", "input"}

\* f64::sqrt(i as f64) as i64: the square root rounded toward zero, 0 for
\* a negative argument (NaN as i64).
SqrtAsInt(i) ==
    IF i < 0 THEN 0 ELSE CHOOSE r \in 0..i : r * r <= i /\ (r + 1) * (r + 1) > i

\* f64::exp(i as f64) as i64 for the small arguments the programs use.
ExpAsInt(i) ==
    IF i < 0 THEN 0
    ELSE CASE i = 0 -> 1 [] i = 1 -> 2 [] i = 2 -> 7 [] i = 3 -> 20
           [] i = 4 -> 54 [] i = 5 -> 148 [] OTHER -> 403

inbuilt_call(m, func, argc) ==
    CASE func = "print" ->
            IF argc # 1 THEN Err(m, "Wrong amount of of arguments for print!")
            ELSE LET p == pop_from_stack(m)
                 IN  [st |-> p.st, m |-> p.m, fault |-> p.fault]
      [] func \in {"sqrt", "exp"} ->
            IF argc # 1 THEN Err(m, "Wrong amount of of arguments for print!")
            ELSE LET p == pop_from_stack(m)
                 IN  IF p.st # "ok" THEN [st |-> p.st, m |-> p.m, fault |-> p.fault]
                     ELSE IF p.v.t = "Integer"
                     THEN push_to_stack(p.m, Integer(IF func = "sqrt"
                                                     THEN SqrtAsInt(p.v.v)
                                                     ELSE ExpAsInt(p.v.v)))
                     ELSE Err(p.m, "Wrong type of argument provided")
      [] func = "input" ->
            IF argc # 0 THEN Err(m, "Wrong amount of of arguments for print!")
            ELSE Ok(m)

(***************************************************************************)
(* next(): what each instruction does to the machine.                      *)
(***************************************************************************)
\* ADD, MULT: a is popped first, b second, a op b is pushed.
exec_Arith(m, op) ==
    LET p == Pop2(m)
    IN  IF p.st # "ok" THEN [st |-> p.st, m |-> p.m, fault |-> p.fault]
        ELSE push_to_stack(p.m, ValueArith(op, p.a, p.b))

\* SUB: b is popped first, a second, a - b is pushed.
exec_SUB(m) ==
    LET p == Pop2(m)
    IN  IF p.st # "ok" THEN [st |-> p.st, m |-> p.m, fault |-> p.fault]
        ELSE push_to_stack(p.m, ValueArith("SUB", p.b, p.a))

\* DIV: a / b; the integer division panics on a zero divisor and rounds
\* toward zero.
exec_DIV(m) ==
    LET p == Pop2(m)
    IN  IF p.st # "ok" THEN [st |-> p.st, m |-> p.m, fault |-> p.fault]
        ELSE IF p.a.t = "Integer" /\ p.b.t = "Integer"
        THEN IF p.b.v = 0 THEN Panic(p.m, "attempt to divide by zero")
             ELSE LET q == IF (p.a.v >= 0) = (p.b.v > 0)
                           THEN (IF p.a.v >= 0 THEN p.a.v ELSE -p.a.v)
                                    \div (IF p.b.v > 0 THEN p.b.v ELSE -p.b.v)
                           ELSE -((IF p.a.v >= 0 THEN p.a.v ELSE -p.a.v)
                                    \div (IF p.b.v > 0 THEN p.b.v ELSE -p.b.v))
                  IN  push_to_stack(p.m, Integer(q))
        ELSE push_to_stack(p.m, NullValue)

\* NEGATE and NOT: the Bool opposite of cast_to_bool.
exec_NotBool(m) ==
    LET p == pop_from_stack(m)
    IN  IF p.st # "ok" THEN [st |-> p.st, m |-> p.m, fault |-> p.fault]
        ELSE IF ~cast_to_bool(p.v).ok THEN Err(p.m, "Null not expected")
        ELSE push_to_stack(p.m, Bool(~cast_to_bool(p.v).v))

\* EQUALS, GREATER, LESSER: a is popped first, b second, Bool(a op b) pushed.
exec_Compare(m, op) ==
    LET p == Pop2(m)
    IN  IF p.st # "ok" THEN [st |-> p.st, m |-> p.m, fault |-> p.fault]
        ELSE push_to_stack(p.m, Bool(CASE op = "EQUALS" -> ValueEq(p.a, p.b)
                                       [] op = "GREATER" -> ValueGt(p.a, p.b)
                                       [] op = "LESSER" -> ValueLt(p.a, p.b)))

\* JMPTO that does not jump.
exec_JMPTO_FallThrough(m, labels, i) == Ok(m)

exec_JMPTO(m, labels, i) ==
    IF ~HasLabel(labels, i.label) THEN Panic(m, "missing label")
    ELSE Ok([m EXCEPT !.rbi = LabelIndex(labels, i.label) - 1])

\* JITL that pops the condition and never jumps.
exec_JITL_NoJump(m, labels, i) ==
    LET p == pop_from_stack(m)
    IN  IF p.st # "ok" THEN [st |-> p.st, m |-> p.m, fault |-> p.fault]
        ELSE IF p.v.t # "Bool" THEN Err(p.m, "expected bool")
        ELSE Ok(p.m)

exec_JITL(m, labels, i) ==
    LET p == pop_from_stack(m)
    IN  IF p.st # "ok" THEN [st |-> p.st, m |-> p.m, fault |-> p.fault]
        ELSE IF p.v.t # "Bool" THEN Err(p.m, "expected bool")
        ELSE IF ~p.v.v THEN Ok(p.m)
        ELSE IF ~HasLabel(labels, i.label) THEN Panic(p.m, "missing label")
        ELSE Ok([p.m EXCEPT !.rbi = LabelIndex(labels, i.label) - 1])

\* SAVEVARLOCAL that writes to the first frame of the stack.
exec_SAVEVARLOCAL_FirstFrame(m, i) ==
    IF m.stack_frames = <<>> THEN Err(m, NoFrames)
    ELSE LET p == pop_from_stack(m)
         IN  IF p.st # "ok" THEN [st |-> p.st, m |-> p.m, fault |-> p.fault]
             ELSE Ok([p.m EXCEPT !.stack_frames[1].local_variables =
                                    MapInsert(@, i.name, p.v)])

exec_SAVEVARLOCAL(m, i) ==
    IF m.stack_frames = <<>> THEN Err(m, NoFrames)
    ELSE LET p == pop_from_stack(m)
         IN  IF p.st # "ok" THEN [st |-> p.st, m |-> p.m, fault |-> p.fault]
             ELSE Ok(SetLocals(p.m, MapInsert(TopFrame(p.m).local_variables, i.name, p.v)))

exec_GETVARLOCAL(m, i) ==
    IF m.stack_frames = <<>> THEN Err(m, NoFrames)
    ELSE IF i.name \notin DOMAIN TopFrame(m).local_variables
    THEN Err(m, UndefinedVariable)
    ELSE push_to_stack(m, TopFrame(m).local_variables[i.name])

RECURSIVE PopN(_, _)
\* argc pops in a row.
PopN(m, n) ==
    IF n = 0 THEN Ok(m)
    ELSE LET p == pop_from_stack(m)
         IN  IF p.st # "ok" THEN [st |-> p.st, m |-> p.m, fault |-> p.fault]
             ELSE PopN(p.m, n - 1)

exec_CALL(m, labels, i) ==
    IF i.name \in InbuiltNames THEN inbuilt_call(m, i.name, i.argc)
    ELSE LET p == PopN(m, i.argc)
         IN  IF p.st # "ok" THEN p
             ELSE LET m1 == [p.m EXCEPT !.stack_frames =
                                Append(@, StackFrameNew(m.rbi, p.m.rsi, i.name))]
                  IN  IF ~HasLabel(labels, i.name) THEN Panic(m1, "missing label")
                      ELSE Ok([m1 EXCEPT !.rbi = LabelIndex(labels, i.name) - 1])

\* RET that does not push the returned value back.
exec_RET_DropValue(m, i) ==
    LET p == IF i.has_value THEN pop_from_stack(m)
             ELSE [st |-> "ok", m |-> m, fault |-> "none", v |-> NullValue]
    IN  IF p.st # "ok" THEN [st |-> p.st, m |-> p.m, fault |-> p.fault]
        ELSE unwind_stack(p.m)

exec_RET(m, i) ==
    LET p == IF i.has_value THEN pop_from_stack(m)
             ELSE [st |-> "ok", m |-> m, fault |-> "none", v |-> NullValue]
    IN  IF p.st # "ok" THEN [st |-> p.st, m |-> p.m, fault |-> p.fault]
        ELSE LET u == unwind_stack(p.m)
             IN  IF u.st # "ok" THEN u
                 ELSE IF i.has_value THEN push_to_stack(u.m, p.v) ELSE u

exec_DEFVAR(m, i) ==
    LET p == pop_from_stack(m)
    IN  IF p.st # "ok" THEN [st |-> p.st, m |-> p.m, fault |-> p.fault]
        ELSE IF p.m.stack_frames = <<>> THEN Err(p.m, NoFrames)
        ELSE Ok(SetLocals(p.m, MapInsert(TopFrame(p.m).local_variables, i.name, p.v)))

exec_DROPVAR(m, i) ==
    IF m.stack_frames = <<>> THEN Err(m, NoFrames)
    ELSE Ok(SetLocals(m, MapRemove(TopFrame(m).local_variables, i.name)))

(***************************************************************************)
(* Heap objects (runtime/object.rs).  A RefHeader is [deleted, uuid,       *)
(* ref_object]; a RefObject is [kind |-> "Null"], [kind |-> "BoxedValue",  *)
(* value], [kind |-> "Array", arr] or [kind |-> "Map", map], a map being   *)
(* the sequence of its <<key, value>> entries.  allocs[n] is the           *)
(* allocation a Ref(n) points towards; every clone of the Ref names the    *)
(* same n.                                                                 *)
(***************************************************************************)
NullObject == [kind |-> "Null"]

BoxedValue(args) ==
    [kind |-> "BoxedValue", value |-> IF args = <<>> THEN NullValue ELSE args[1]]

\* HashMap::contains_key / index: the entries whose key == at.
MapEntries(entries, at) == {n \in DOMAIN entries : ValueEq(entries[n][1], at)}

\* HashMap::insert, after the removal of an entry with an equal key.
MapSet(entries, at, with) ==
    Append(SelectSeq(entries, LAMBDA e : ~ValueEq(e[1], at)), <<at, with>>)

RECURSIVE MapFromChunks(_, _, _)
\* args.chunks_exact(2), each chunk inserted as key and value.
MapFromChunks(args, n, entries) ==
    IF n + 1 > Len(args) THEN entries
    ELSE MapFromChunks(args, n + 2, MapSet(entries, args[n], args[n + 1]))

\* RefHeader::instance_with_initializer; uuid is what COUNTER.fetch_add gave.
instance_with_initializer(typ, args, uuid) ==
    [deleted |-> FALSE, uuid |-> uuid,
     ref_object |->
        CASE typ.k = "Primitive" -> BoxedValue(args)
          [] typ.k = "Array" -> [kind |-> "Array", arr |-> args]
          [] typ.k = "Map" -> [kind |-> "Map", map |-> MapFromChunks(args, 1, <<>>)]
          [] typ.k = "HeapValue" -> BoxedValue(args)
          [] typ.k = "Or" -> NullObject
          [] typ.k = "Null" -> NullObject]

NullDereference == "Cannot dereference null"

\* RefHeader::get: [st, fault, v]
RefHeader_get(h, at) ==
    CASE h.ref_object.kind = "Map" ->
            IF MapEntries(h.ref_object.map, at) = {}
            THEN [st |-> "panic", fault |-> "missing key", v |-> NullValue]
            ELSE [st |-> "ok", fault |-> "none",
                  v |-> h.ref_object.map[CHOOSE n \in MapEntries(h.ref_object.map, at) : TRUE][2]]
      [] h.ref_object.kind = "Null" ->
            [st |-> "error", fault |-> NullDereference, v |-> NullValue]
      [] h.ref_object.kind = "Array" ->
            IF at.t # "Integer"
            THEN [st |-> "error", fault |-> "expected null", v |-> NullValue]
            ELSE IF at.v < 0 \/ at.v >= Len(h.ref_object.arr)
            THEN [st |-> "panic", fault |-> "index out of range", v |-> NullValue]
            ELSE [st |-> "ok", fault |-> "none", v |-> h.ref_object.arr[at.v + 1]]
      [] h.ref_object.kind = "BoxedValue" ->
            [st |-> "ok", fault |-> "none", v |-> h.ref_object.value]

\* RefHeader::set: [st, fault, h]
RefHeader_set(h, at, with) ==
    CASE h.ref_object.kind = "Map" ->
            [st |-> "ok", fault |-> "none",
             h |-> [h EXCEPT !.ref_object.map = MapSet(@, at, with)]]
      [] h.ref_object.kind = "Null" ->
            [st |-> "error", fault |-> NullDereference, h |-> h]
      [] h.ref_object.kind = "Array" ->
            IF at.t # "Integer"
            THEN [st |-> "error", fault |-> "expected null", h |-> h]
            ELSE IF at.v < 0 \/ at.v >= Len(h.ref_object.arr)
            THEN [st |-> "panic", fault |-> "index out of range", h |-> h]
            ELSE [st |-> "ok", fault |-> "none",
                  h |-> [h EXCEPT !.ref_object.arr[at.v + 1] = with]]
      [] h.ref_object.kind = "BoxedValue" ->
            [st |-> "ok", fault |-> "none", h |-> [h EXCEPT !.ref_object.value = with]]

\* Ref::delete that leaves the object in place.
Ref_delete_KeepObject(h) == [h EXCEPT !.deleted = TRUE]

\* Ref::delete, on the header the Ref points towards.
Ref_delete(h) == [h EXCEPT !.deleted = TRUE, !.ref_object = NullObject]

\* impl PartialEq for Ref: the uuids of the two headers.
Ref_eq(hp, a, b) == hp[a.towards].uuid = hp[b.towards].uuid

RECURSIVE PopArgs(_, _, _)
\* INSTANCE: argc values popped into a Vec, the top of the stack first.
PopArgs(m, n, acc) ==
    IF n = 0 THEN [st |-> "ok", m |-> m, fault |-> "none", acc |-> acc]
    ELSE LET p == pop_from_stack(m)
         IN  IF p.st # "ok" THEN [st |-> p.st, m |-> p.m, fault |-> p.fault, acc |-> acc]
             ELSE PopArgs(p.m, n - 1, Append(acc, p.v))

\* ByteCodeMachine::instance: no Abra type is known to the machine.
exec_InstanceOp(m, i) ==
    LET p == PopArgs(m, i.argc, <<>>)
    IN  IF p.st # "ok" THEN [st |-> p.st, m |-> p.m, fault |-> p.fault]
        ELSE IF i.typ.k = "Abra" THEN Panic(p.m, "Abra type definition not found")
        ELSE push_to_stack(
                [p.m EXCEPT !.allocs = Append(@, instance_with_initializer(i.typ, p.acc, Len(@)))],
                Ref(Len(p.m.allocs) + 1))

exec_DUP(m) ==
    LET p == pop_from_stack(m)
        again(r) == IF r.st # "ok" THEN r ELSE push_to_stack(r.m, p.v)
    IN  IF p.st # "ok" THEN [st |-> p.st, m |-> p.m, fault |-> p.fault]
        ELSE again(push_to_stack(p.m, p.v))

\* GETFROMREF: the Ref is popped and checked before the offset is popped.
exec_GETFROMREF(m) ==
    LET p == pop_from_stack(m)
        got(q, g) == IF g.st = "ok" THEN push_to_stack(q.m, g.v)
                     ELSE [st |-> g.st, m |-> q.m, fault |-> g.fault]
        offset(q) == IF q.st # "ok" THEN [st |-> q.st, m |-> q.m, fault |-> q.fault]
                     ELSE got(q, RefHeader_get(q.m.allocs[p.v.towards], q.v))
    IN  IF p.st # "ok" THEN [st |-> p.st, m |-> p.m, fault |-> p.fault]
        ELSE IF p.v.t # "Ref" THEN Err(p.m, "expected ref")
        ELSE offset(pop_from_stack(p.m))

\* SAVETOREF: value, then the Ref, then the offset.
exec_SAVETOREF(m) ==
    LET p == Pop2(m)
        set(q, s) == [st |-> s.st, fault |-> s.fault,
                      m |-> [q.m EXCEPT !.allocs[p.b.towards] = s.h]]
        offset(q) == IF q.st # "ok" THEN [st |-> q.st, m |-> q.m, fault |-> q.fault]
                     ELSE set(q, RefHeader_set(q.m.allocs[p.b.towards], q.v, p.a))
    IN  IF p.st # "ok" THEN [st |-> p.st, m |-> p.m, fault |-> p.fault]
        ELSE IF p.b.t # "Ref" THEN Err(p.m, "expected ref")
        ELSE offset(pop_from_stack(p.m))

\* The Ref values the machine holds: on the stack and in the frames.
HeldRefs(m) ==
    {m.stack[n] : n \in {k \in 1..Len(m.stack) : k <= m.rsi /\ m.stack[k].t = "Ref"}}
    \cup UNION {{f.local_variables[x] :
                    x \in {y \in DOMAIN f.local_variables : f.local_variables[y].t = "Ref"}} :
                f \in {m.stack_frames[n] : n \in 1..Len(m.stack_frames)}}

(***************************************************************************)
(* The type checker (compiler/typecheck.rs).  A scope maps a variable name *)
(* to its declared Type; tc is the record [abra_types, global_functions].  *)
(***************************************************************************)
Error(kind) == [sev |-> "Error", kind |-> kind]

Warning(kind) == [sev |-> "Warning", kind |-> kind]

FunctionSignature(name, parameters, return_type) ==
    [name |-> name, parameters |-> parameters, return_type |-> return_type]

\* generate_inbuilt_function_hashmap, the signatures.
InbuiltSignatures ==
    [n \in InbuiltNames |->
        CASE n = "print" -> FunctionSignature("print", <<NullType>>, NullType)
          [] n = "sqrt" -> FunctionSignature("sqrt", <<or(FLOAT_TYPE, INTEGER_TYPE)>>, FLOAT_TYPE)
          [] n = "exp" -> FunctionSignature("exp", <<or(FLOAT_TYPE, INTEGER_TYPE)>>, FLOAT_TYPE)
          [] n = "input" -> FunctionSignature("input", <<>>, STRING_TYPE)]

\* The Type of a literal value.
StaticValueType(v) ==
    CASE v.t = "Null" -> NullType
      [] v.t = "Integer" -> INTEGER_TYPE
      [] v.t = "Float" -> FLOAT_TYPE
      [] v.t = "Char" -> CHAR_TYPE
      [] v.t = "Bool" -> BOOL_TYPE
      [] v.t = "String" -> STRING_TYPE

Numeric(l, r) ==
    /\ l \in {INTEGER_TYPE, FLOAT_TYPE}
    /\ r \in {INTEGER_TYPE, FLOAT_TYPE}

\* The result of a binary operator on operand types l and r: [ty, messages].
BinaryType(op, l, r) ==
    CASE op \in {"ADD", "SUB", "MULT", "DIV"} ->
            IF l = INTEGER_TYPE /\ r = INTEGER_TYPE THEN [ty |-> INTEGER_TYPE, messages |-> <<>>]
            ELSE IF Numeric(l, r) THEN [ty |-> FLOAT_TYPE, messages |-> <<>>]
            ELSE IF l = STRING_TYPE /\ r = STRING_TYPE /\ op = "ADD"
            THEN [ty |-> STRING_TYPE, messages |-> <<>>]
            ELSE [ty |-> NullType, messages |-> <<Error("binary operator operands")>>]
      [] op = "MOD" ->
            IF l = INTEGER_TYPE /\ r = INTEGER_TYPE THEN [ty |-> INTEGER_TYPE, messages |-> <<>>]
            ELSE [ty |-> NullType, messages |-> <<Error("binary operator operands")>>]
      [] op \in {"AND", "OR", "XOR"} ->
            IF l = BOOL_TYPE /\ r = BOOL_TYPE THEN [ty |-> BOOL_TYPE, messages |-> <<>>]
            ELSE [ty |-> NullType, messages |-> <<Error("logical operator operands")>>]
      [] op \in {"LT", "LE", "GT", "GE"} ->
            IF Numeric(l, r) \/ (l = CHAR_TYPE /\ r = CHAR_TYPE)
            THEN [ty |-> BOOL_TYPE, messages |-> <<>>]
            ELSE [ty |-> NullType, messages |-> <<Error("comparison operator operands")>>]
      [] op \in {"EQ", "NE"} ->
            IF \/ (l.k = "Primitive" /\ r.k = "Primitive" /\ l.p = r.p)
               \/ Numeric(l, r)
               \/ (l.k = "Abra" /\ r.k = "Abra" /\ l.name = r.name)
               \/ l = NullType \/ r = NullType
               \/ is_subtype_of(l, r) \/ is_subtype_of(r, l)
            THEN [ty |-> BOOL_TYPE, messages |-> <<>>]
            ELSE [ty |-> NullType, messages |-> <<Warning("equality operands")>>]

RECURSIVE type_eval_expression(_, _, _)
RECURSIVE type_eval_args(_, _, _, _, _, _)

\* The loop over call or constructor arguments: each argument is evaluated
\* and must be a subtype of its parameter type.
type_eval_args(args, parameters, n, variables, tc, kind) ==
    IF n > Len(args) THEN <<>>
    ELSE LET arg(r) ==
                r.messages
                    \o (IF is_subtype_of(r.ty, parameters[n]) THEN <<>> ELSE <<Error(kind)>>)
         IN  arg(type_eval_expression(args[n], variables, tc))
                \o type_eval_args(args, parameters, n + 1, variables, tc, kind)

\* Expression::Unary: the result type and the messages built for it.
UnaryType(op, operand) ==
    IF op = "NEG"
    THEN IF is_subtype_of(operand, INTEGER_TYPE) THEN [ty |-> INTEGER_TYPE, messages |-> <<>>]
         ELSE IF is_subtype_of(operand, FLOAT_TYPE) THEN [ty |-> FLOAT_TYPE, messages |-> <<>>]
         ELSE [ty |-> NullType, messages |-> <<Error("unary - operand")>>]
    ELSE IF is_subtype_of(operand, BOOL_TYPE) THEN [ty |-> BOOL_TYPE, messages |-> <<>>]
         ELSE [ty |-> NullType, messages |-> <<Error("unary ! operand")>>]

\* Expression::Instance: [ty, messages].
InstanceType(e, variables, tc) ==
    LET ty == e.ty
        args == e.args
        rep(t, n) == [x \in 1..n |-> t]
    IN  CASE ty.k = "Abra" ->
                IF ty.name \notin DOMAIN tc.abra_types
                THEN [ty |-> NullType, messages |-> <<Error("unknown class")>>]
                ELSE LET fs == tc.abra_types[ty.name].functions
                     IN  IF "init" \in DOMAIN fs
                         THEN IF Len(args) # Len(fs["init"].parameters)
                              THEN [ty |-> ty, messages |-> <<Error("constructor arity")>>]
                              ELSE [ty |-> ty,
                                    messages |-> type_eval_args(args, fs["init"].parameters, 1,
                                                    variables, tc, "constructor argument")]
                         ELSE IF args # <<>>
                         THEN [ty |-> ty, messages |-> <<Error("no init constructor")>>]
                         ELSE [ty |-> ty, messages |-> <<>>]
          [] ty.k = "Array" ->
                [ty |-> ty,
                 messages |-> type_eval_args(args, rep(ty.t, Len(args)), 1, variables, tc,
                                             "array element")]
          [] ty.k = "Map" ->
                IF Len(args) % 2 # 0
                THEN [ty |-> ty, messages |-> <<Error("map argument count")>>]
                ELSE LET entry(kr, vr) ==
                            kr.messages \o vr.messages
                                \o (IF is_subtype_of(kr.ty, ty.key) THEN <<>>
                                    ELSE <<Error("map key")>>)
                                \o (IF is_subtype_of(vr.ty, ty.val) THEN <<>>
                                    ELSE <<Error("map value")>>)
                         pair(n) ==
                            entry(type_eval_expression(args[2 * n - 1], variables, tc),
                                  type_eval_expression(args[2 * n], variables, tc))
                         pairs[n \in 0..(Len(args) \div 2)] ==
                            IF n = 0 THEN <<>> ELSE pairs[n - 1] \o pair(n)
                     IN  [ty |-> ty, messages |-> pairs[Len(args) \div 2]]
          [] ty.k = "HeapValue" ->
                IF Len(args) # 1
                THEN [ty |-> ty, messages |-> <<Error("box argument count")>>]
                ELSE [ty |-> ty,
                      messages |-> type_eval_args(args, <<ty.t>>, 1, variables, tc,
                                                  "box inner type")]
          [] ty.k = "Or" ->
                [ty |-> NullType, messages |-> <<Error("instantiate algebraic type")>>]
          [] ty.k \in {"Primitive", "Null"} ->
                [ty |-> NullType, messages |-> <<Error("instantiate primitive or null")>>]

\* Expression::Get on a base of type base_ty: [ty, messages].
GetType(member, base_ty, tc) ==
    CASE base_ty.k = "Abra" ->
            IF base_ty.name \notin DOMAIN tc.abra_types
            THEN [ty |-> NullType, messages |-> <<Error("class definition not found")>>]
            ELSE LET def == tc.abra_types[base_ty.name]
                 IN  IF member \in DOMAIN def.variables
                     THEN [ty |-> def.variables[member], messages |-> <<>>]
                     ELSE IF member \in DOMAIN def.functions
                     THEN [ty |-> NullType, messages |-> <<Error("method as a value")>>]
                     ELSE [ty |-> NullType, messages |-> <<Error("member not found")>>]
      [] base_ty.k \in {"Array", "Map", "HeapValue"} ->
            IF \/ (base_ty.k = "Array" /\ member = "length")
               \/ (base_ty.k = "Map" /\ member = "size")
            THEN [ty |-> INTEGER_TYPE, messages |-> <<>>]
            ELSE [ty |-> NullType, messages |-> <<Error("member access not supported")>>]
      [] base_ty = STRING_TYPE /\ member = "length" ->
            [ty |-> INTEGER_TYPE, messages |-> <<>>]
      [] OTHER -> [ty |-> NullType, messages |-> <<Error("cannot access member")>>]

\* type_eval_expression: [ty, messages].  The Unary arm builds its messages
\* and returns an empty list.
type_eval_expression(e, variables, tc) ==
    CASE e.e = "Literal" ->
            IF e.lit = "Identifier"
            THEN IF e.name \in DOMAIN variables
                 THEN [ty |-> variables[e.name], messages |-> <<>>]
                 ELSE [ty |-> NullType, messages |-> <<Error("variable not found")>>]
            ELSE [ty |-> StaticValueType(e.v), messages |-> <<>>]
      [] e.e = "Unary" ->
            LET unary(r, u) == [ty |-> u.ty, messages |-> <<>>]
                operand(r) == unary(r, UnaryType(e.op, r.ty))
            IN  operand(type_eval_expression(e.x, variables, tc))
      [] e.e = "Binary" ->
            LET binary(l, r, b) ==
                    [ty |-> b.ty, messages |-> l.messages \o r.messages \o b.messages]
                operands(l, r) == binary(l, r, BinaryType(e.op, l.ty, r.ty))
            IN  operands(type_eval_expression(e.lhs, variables, tc),
                         type_eval_expression(e.rhs, variables, tc))
      [] e.e = "Grouping" -> type_eval_expression(e.x, variables, tc)
      [] e.e = "Call" ->
            IF e.func \in DOMAIN tc.global_functions
            THEN LET sig == tc.global_functions[e.func]
                 IN  IF Len(e.args) # Len(sig.parameters)
                     THEN [ty |-> sig.return_type, messages |-> <<Error("call arity")>>]
                     ELSE [ty |-> sig.return_type,
                           messages |-> type_eval_args(e.args, sig.parameters, 1,
                                            variables, tc, "call argument")]
            ELSE [ty |-> NullType, messages |-> <<Error("function not found")>>]
      [] e.e = "Get" ->
            LET get(r, g) == [ty |-> g.ty, messages |-> r.messages \o g.messages]
                base(r) == get(r, GetType(e.member, r.ty, tc))
            IN  base(type_eval_expression(e.x, variables, tc))
      [] e.e = "Instance" -> InstanceType(e, variables, tc)

\* check_statement_block.  st is [scope, messages]: the scope the block
\* mutates and the messages pushed so far.
RECURSIVE check_statement_block(_, _, _, _, _)
RECURSIVE check_statement(_, _, _, _)

check_statement_block(stmts, n, st, expected, tc) ==
    IF n > Len(stmts) THEN st
    ELSE check_statement_block(stmts, n + 1,
                               check_statement(stmts[n], st, expected, tc), expected, tc)

check_statement(stmt, st, expected, tc) ==
    CASE stmt.s = "Declare" ->
            LET declare(r) ==
                    [scope |-> MapInsert(st.scope, stmt.name, stmt.ty),
                     messages |-> st.messages \o r.messages
                        \o (IF is_subtype_of(r.ty, stmt.ty) THEN <<>>
                            ELSE <<Error("declaration type mismatch")>>)
                        \o (IF stmt.name \in DOMAIN st.scope
                            THEN <<Warning("shadows a variable")>> ELSE <<>>)]
            IN  declare(type_eval_expression(stmt.expr, st.scope, tc))
      [] stmt.s = "Set" ->
            IF stmt.name \notin DOMAIN st.scope
            THEN [st EXCEPT !.messages = @ \o <<Error("variable not found for assignment")>>]
            ELSE LET set(r) ==
                        [st EXCEPT !.messages = @ \o r.messages
                            \o (IF is_subtype_of(r.ty, st.scope[stmt.name]) THEN <<>>
                                ELSE <<Error("assignment type mismatch")>>)]
                 IN  set(type_eval_expression(stmt.expr, st.scope, tc))
      [] stmt.s \in {"Expression", "Print"} ->
            [st EXCEPT !.messages = @ \o type_eval_expression(stmt.expr, st.scope, tc).messages]
      [] stmt.s = "Return" ->
            LET return(r) ==
                    [st EXCEPT !.messages = @ \o r.messages
                        \o (IF ~expected.some THEN <<Error("return outside of a function")>>
                            ELSE IF is_subtype_of(r.ty, expected.ty) THEN <<>>
                            ELSE <<Error("return type mismatch")>>)]
            IN  return(IF stmt.has_expr THEN type_eval_expression(stmt.expr, st.scope, tc)
                       ELSE [ty |-> NullType, messages |-> <<>>])
      [] stmt.s = "If" ->
            \* In source order: the condition, the block on a clone of the
            \* scope, the else block on another clone; the scope is unchanged.
            LET close(else_st) == [scope |-> st.scope, messages |-> else_st.messages]
                else_block(then_st) ==
                    close(IF stmt.has_else
                          THEN check_statement_block(stmt.els, 1,
                                    [scope |-> st.scope, messages |-> then_st.messages],
                                    expected, tc)
                          ELSE then_st)
                block(m1) ==
                    else_block(check_statement_block(stmt.block, 1,
                                    [scope |-> st.scope, messages |-> m1], expected, tc))
                cond(r) ==
                    block(st.messages \o r.messages
                            \o (IF is_subtype_of(r.ty, BOOL_TYPE) THEN <<>>
                                ELSE <<Error("if condition not a boolean")>>))
            IN  cond(type_eval_expression(stmt.cond, st.scope, tc))
      [] stmt.s = "For" ->
            \* In source order: the init statement on a clone of the scope,
            \* the condition in it, the body on a clone of that, the
            \* increment on another clone; the scope is unchanged.
            LET close(incr_st) == [scope |-> st.scope, messages |-> incr_st.messages]
                incr(body_st, loop_scope) ==
                    close(check_statement_block(<<stmt.incr>>, 1,
                                [scope |-> loop_scope, messages |-> body_st.messages],
                                expected, tc))
                body(for_st) ==
                    incr(IF stmt.has_body
                         THEN check_statement_block(stmt.body, 1, for_st, expected, tc)
                         ELSE for_st,
                         for_st.scope)
                cond(init_st, r) ==
                    body([scope |-> init_st.scope,
                          messages |-> init_st.messages \o r.messages
                            \o (IF is_subtype_of(r.ty, BOOL_TYPE) THEN <<>>
                                ELSE <<Error("for condition not a boolean")>>)])
                init(init_st) ==
                    cond(init_st, type_eval_expression(stmt.cond, init_st.scope, tc))
            IN  init(check_statement_block(<<stmt.init>>, 1, st, expected, tc))
      [] stmt.s = "Null" -> st

\* The signature pass 1 records for a function or a method.
SignatureOf(func) ==
    FunctionSignature(func.name, [n \in 1..Len(func.params) |-> func.params[n].ty],
                      func.return_type)

\* Pass 1 on a class: its AbraTypeDefinition and the duplicate-method errors.
ClassDefinition(class) ==
    LET vs == [x \in {class.variables[n][1] : n \in 1..Len(class.variables)} |->
                    LET last == CHOOSE n \in 1..Len(class.variables) :
                                    /\ class.variables[n][1] = x
                                    /\ \A k \in 1..Len(class.variables) :
                                            class.variables[k][1] = x => k <= n
                    IN  class.variables[last][2]]
        fnames == {class.functions[n].name : n \in 1..Len(class.functions)}
        fs == [x \in fnames |->
                    LET last == CHOOSE n \in 1..Len(class.functions) :
                                    /\ class.functions[n].name = x
                                    /\ \A k \in 1..Len(class.functions) :
                                            class.functions[k].name = x => k <= n
                    IN  SignatureOf(class.functions[last])]
        dups == SelectSeq([n \in 1..Len(class.functions) |->
                            IF \E k \in 1..(n - 1) :
                                    class.functions[k].name = class.functions[n].name
                            THEN Error("duplicate method") ELSE Warning("none")],
                          LAMBDA msg : msg.sev = "Error")
    IN  [def |-> [name |-> class.name, variables |-> vs, functions |-> fs],
         messages |-> dups]

\* Pass 2 on a function: the scope holds the parameters.
RECURSIVE ParamScope(_, _, _)
ParamScope(scope, params, n) ==
    IF n > Len(params) THEN scope
    ELSE ParamScope(MapInsert(scope, params[n].name, params[n].ty), params, n + 1)

\* Pass 2 on a method: a parameter that is already in the scope (a field, or
\* an earlier parameter) is an error.
RECURSIVE ParamShadowErrors(_, _, _)
ParamShadowErrors(scope, params, n) ==
    IF n > Len(params) THEN <<>>
    ELSE (IF params[n].name \in DOMAIN scope THEN <<Error("parameter shadows a member")>>
          ELSE <<>>)
            \o ParamShadowErrors(MapInsert(scope, params[n].name, params[n].ty), params, n + 1)

\* Pass 2 on the methods of a class, from method n on: [messages, visited].
RECURSIVE check_methods(_, _, _, _, _)
check_methods(class, n, msgs, seen, tc) ==
    IF n > Len(class.functions) THEN [messages |-> msgs, visited |-> seen]
    ELSE LET func == class.functions[n]
             fields == tc.abra_types[class.name].variables
             st == check_statement_block(func.body, 1,
                        [scope |-> ParamScope(fields, func.params, 1),
                         messages |-> msgs \o ParamShadowErrors(fields, func.params, 1)],
                        [some |-> TRUE, ty |-> func.return_type], tc)
         IN  check_methods(class, n + 1, st.messages,
                           Append(seen, MethodLabel(class.name, func.name)), tc)

\* The first pass of check over the items from item n on.  t is the checker
\* [messages, abra_types, global_functions].
RECURSIVE check_first_pass(_, _, _)
check_first_pass(items, n, t) ==
    IF n > Len(items) THEN t
    ELSE LET item == items[n]
         IN  IF item.i = "Class"
             THEN LET class(cd) ==
                        [t EXCEPT
                            !.abra_types = MapInsert(@, item.name, cd.def),
                            !.messages = @ \o cd.messages
                                \o (IF item.name \in DOMAIN t.abra_types
                                    THEN <<Error("duplicate class")>> ELSE <<>>)]
                  IN  check_first_pass(items, n + 1, class(ClassDefinition(item)))
             ELSE check_first_pass(items, n + 1,
                        [t EXCEPT
                            !.global_functions = MapInsert(@, item.name, SignatureOf(item)),
                            !.messages = @
                                \o (IF item.name \in DOMAIN t.global_functions
                                    THEN <<Error("duplicate global function")>> ELSE <<>>)])

\* The second pass of check over the items from item n on: every function
\* body and every method body goes through check_statement_block.
RECURSIVE check_second_pass(_, _, _, _, _)
check_second_pass(items, n, msgs, seen, tc) ==
    IF n > Len(items) THEN [messages |-> msgs, visited |-> seen]
    ELSE LET item == items[n]
         IN  IF item.i = "Class"
             THEN LET rest(r) == check_second_pass(items, n + 1, r.messages, r.visited, tc)
                  IN  rest(check_methods(item, 1, msgs, seen, tc))
             ELSE LET st == check_statement_block(item.body, 1,
                                [scope |-> ParamScope([x \in {} |-> NullType], item.params, 1),
                                 messages |-> msgs],
                                [some |-> TRUE, ty |-> item.return_type], tc)
                  IN  check_second_pass(items, n + 1, st.messages,
                                        Append(seen, item.name), tc)

\* TypeChecker::new without the inbuilt signatures.
TypeCheckerNew_NoInbuilt ==
    [messages |-> <<>>, abra_types |-> [x \in {} |-> NullType],
     global_functions |-> [x \in {} |-> NullType]]

\* TypeChecker::new
TypeCheckerNew ==
    [messages |-> <<>>, abra_types |-> [x \in {} |-> NullType],
     global_functions |-> InbuiltSignatures]

\* A checker that goes through the items once, top to bottom: a body sees
\* only the signatures of the items up to its own.
check_TopToBottom(items) ==
    LET p1 == check_first_pass(items, 1, TypeCheckerNew)
        walk[n \in 0..Len(items)] ==
            IF n = 0 THEN [messages |-> p1.messages, visited |-> <<>>]
            ELSE LET seen == check_first_pass(SubSeq(items, 1, n), 1, TypeCheckerNew)
                 IN  check_second_pass(<<items[n]>>, 1, walk[n - 1].messages,
                                       walk[n - 1].visited,
                                       [abra_types |-> seen.abra_types,
                                        global_functions |-> seen.global_functions])
    IN  [messages |-> walk[Len(items)].messages, abra_types |-> p1.abra_types,
         global_functions |-> p1.global_functions, visited |-> walk[Len(items)].visited]

\* TypeChecker::check: [messages, abra_types, global_functions, visited].
check(items) ==
    LET checked(p1, p2) ==
            [messages |-> p2.messages, abra_types |-> p1.abra_types,
             global_functions |-> p1.global_functions, visited |-> p2.visited]
        second_pass(p1) ==
            checked(p1, check_second_pass(items, 1, p1.messages, <<>>,
                            [abra_types |-> p1.abra_types,
                             global_functions |-> p1.global_functions]))
    IN  second_pass(check_first_pass(items, 1, TypeCheckerNew))

\* The pipeline fails on any message at all.
CompilationFailed_AnyMessage(msgs) == msgs # <<>>

\* compilation_pipepline: the count of Error messages is above zero.
CompilationFailed(msgs) ==
    Cardinality({n \in 1..Len(msgs) : msgs[n].sev = "Error"}) > 0

(***************************************************************************)
(* The programs the tool chain is run on.                                  *)
(***************************************************************************)
Operands == 0..MaxOperand

LoopCounts == 0..MaxLoop

IntLit(n) == Lit(Integer(n))

Main(return_type, body) == Function("main", <<>>, return_type, body)

ArithOps == {"ADD", "SUB", "MULT", "DIV"}

BinOps == ArithOps \cup {"EQ", "LT", "GT", "GE", "LE"}

\* func main() { return a op b; }
BinaryProgram(op, a, b) ==
    <<Main(IF op \in ArithOps THEN INTEGER_TYPE ELSE BOOL_TYPE,
           <<Return(Binary(op, IntLit(a), IntLit(b)))>>)>>

\* func f(x) { return x; }
Identity1 ==
    Function("f", <<Parameter("x", INTEGER_TYPE)>>, INTEGER_TYPE, <<Return(Ident("x"))>>)

\* func f(x, y) { return x; }
First2 ==
    Function("f", <<Parameter("x", INTEGER_TYPE), Parameter("y", INTEGER_TYPE)>>,
             INTEGER_TYPE, <<Return(Ident("x"))>>)

\* func f() { return 4; }
Const0 == Function("f", <<>>, INTEGER_TYPE, <<Return(IntLit(4))>>)

\* func main() { return f(); }
CallProgram0 == <<Main(INTEGER_TYPE, <<Return(Call("f", <<>>))>>), Const0>>

\* func main() { return f(a); }
CallProgram1(a) == <<Main(INTEGER_TYPE, <<Return(Call("f", <<IntLit(a)>>))>>), Identity1>>

\* func main() { return f(a) + k; }: k is on the stack below the argument.
CallProgram1Over(a, k) ==
    <<Main(INTEGER_TYPE, <<Return(Binary("ADD", Call("f", <<IntLit(a)>>), IntLit(k)))>>),
      Identity1>>

\* func main() { return f(a, b) + k; }
CallProgram2Over(a, b, k) ==
    <<Main(INTEGER_TYPE,
           <<Return(Binary("ADD", Call("f", <<IntLit(a), IntLit(b)>>), IntLit(k)))>>),
      First2>>

CallPrograms ==
    {CallProgram0}
        \cup {CallProgram1(a) : a \in Operands}
        \cup {CallProgram1Over(a, k) : a \in Operands, k \in Operands}
        \cup {CallProgram2Over(a, b, k) : a \in 0..1, b \in 0..1, k \in Operands}

\* A program with no main.
NoMainProgram == <<Function("g", <<>>, INTEGER_TYPE, <<Return(IntLit(1))>>)>>

\* func main() { return g(); } and func main() { return !g(); }, no g defined.
UndefinedCallProgram(negated) ==
    <<Main(IF negated THEN BOOL_TYPE ELSE INTEGER_TYPE,
           <<Return(IF negated THEN Unary("NOT", Call("g", <<>>)) ELSE Call("g", <<>>))>>)>>

\* The ways the programs read a variable.
ReadKinds == {"plain", "negated", "added"}

Read(kind, name) ==
    CASE kind = "plain" -> Ident(name)
      [] kind = "negated" -> Unary("NEG", Ident(name))
      [] kind = "added" -> Binary("ADD", Ident(name), IntLit(1))

\* func main() { if (c) { let x = 1; } return <x>; }
VarDropIf(c, kind) ==
    <<Main(INTEGER_TYPE,
           <<If(Lit(Bool(c)), <<Declare("x", INTEGER_TYPE, IntLit(1))>>),
             Return(Read(kind, "x"))>>)>>

\* func main() { if (c) { let <n1> = 1; } else { let <n2> = 2; } return <x>; }
VarDropIfElse(c, x_in_then, kind) ==
    <<Main(INTEGER_TYPE,
           <<IfElse(Lit(Bool(c)),
                    <<Declare(IF x_in_then THEN "x" ELSE "y", INTEGER_TYPE, IntLit(1))>>,
                    <<Declare(IF x_in_then THEN "y" ELSE "x", INTEGER_TYPE, IntLit(2))>>),
             Return(Read(kind, "x"))>>)>>

\* func main() { for (let x = 0; x < n; x = x + 1) { } return <x>; }
VarDropForInit(n, kind) ==
    <<Main(INTEGER_TYPE,
           <<For(Declare("x", INTEGER_TYPE, IntLit(0)),
                 Binary("LT", Ident("x"), IntLit(n)),
                 SetVar("x", Binary("ADD", Ident("x"), IntLit(1))),
                 <<>>),
             Return(Read(kind, "x"))>>)>>

\* func main() { for (let i = 0; i < n; i = i + 1) { let x = i; } return <x>; }
VarDropForBody(n, kind) ==
    <<Main(INTEGER_TYPE,
           <<For(Declare("i", INTEGER_TYPE, IntLit(0)),
                 Binary("LT", Ident("i"), IntLit(n)),
                 SetVar("i", Binary("ADD", Ident("i"), IntLit(1))),
                 <<Declare("x", INTEGER_TYPE, Ident("i"))>>),
             Return(Read(kind, "x"))>>)>>

\* The programs that read x after the only block that declares it.
VarDropPrograms ==
    {VarDropIf(c, kind) : c \in BOOLEAN, kind \in ReadKinds}
        \cup {VarDropIfElse(c, t, kind) : c \in BOOLEAN, t \in BOOLEAN, kind \in ReadKinds}
        \cup {VarDropForInit(n, kind) : n \in LoopCounts, kind \in ReadKinds}
        \cup {VarDropForBody(n, kind) : n \in LoopCounts, kind \in ReadKinds}

\* func main() { let x = 3; if (c) { let y = 1; } return x; }: x outlives the block.
VarKeptProgram(c) ==
    <<Main(INTEGER_TYPE,
           <<Declare("x", INTEGER_TYPE, IntLit(3)),
             If(Lit(Bool(c)), <<Declare("y", INTEGER_TYPE, IntLit(1))>>),
             Return(Ident("x"))>>)>>

UnaryOps == {"NEG", "NOT"}

UnaryOperands == {Integer(1), Bool(TRUE), NullValue}

\* func main() { let v: ty = <op> <literal>; return 0; }
UnaryProgram(op, v, ty) ==
    <<Main(INTEGER_TYPE, <<Declare("v", ty, Unary(op, Lit(v))), Return(IntLit(0))>>)>>

UnaryPrograms ==
    {UnaryProgram(op, v, ty) :
        op \in UnaryOps, v \in UnaryOperands, ty \in {INTEGER_TYPE, BOOL_TYPE}}

\* Function bodies: one with no message, one with an Error (the return type
\* is wrong), one with a Warning only (a declaration shadows another).
BodyKinds == {"clean", "error", "warning"}

Body(kind) ==
    CASE kind = "clean" -> <<Return(IntLit(0))>>
      [] kind = "error" -> <<Return(Lit(Bool(TRUE)))>>
      [] kind = "warning" ->
            <<Declare("a", INTEGER_TYPE, IntLit(1)), Declare("a", INTEGER_TYPE, IntLit(2)),
              Return(IntLit(0))>>

\* func f() {..}  class K { func m() {..} }  func main() {..}
ItemsProgram(b1, b2, b3) ==
    <<Function("f", <<>>, INTEGER_TYPE, Body(b1)),
      Class("K", <<>>, <<Function("m", <<>>, INTEGER_TYPE, Body(b2))>>),
      Main(INTEGER_TYPE, Body(b3))>>

ItemsPrograms == {ItemsProgram(b1, b2, b3) : b1 \in BodyKinds, b2 \in BodyKinds, b3 \in BodyKinds}

\* func main() { let a = 1; }: no return, the code ends after the body.
FallOffProgram == <<Main(INTEGER_TYPE, <<Declare("a", INTEGER_TYPE, IntLit(1))>>)>>

\* func main() { print(a); print a; return sqrt(a); }
InbuiltProgram(a) ==
    <<Main(INTEGER_TYPE,
           <<ExprStmt(Call("print", <<IntLit(a)>>)), PrintStmt(IntLit(a)), NullStmt,
             Return(Grouping(Call("sqrt", <<IntLit(a)>>)))>>)>>

\* What a program declares twice.
DuplicateKinds == {"function", "three functions", "class", "method"}

\* Programs in which a function, a class or a method is declared again;
\* b1 and b2 are the bodies of the first and of the last declaration.
DuplicateProgram(kind, b1, b2) ==
    CASE kind = "function" ->
            <<Function("f", <<>>, INTEGER_TYPE, Body(b1)),
              Main(INTEGER_TYPE, Body("clean")),
              Function("f", <<Parameter("x", INTEGER_TYPE)>>, INTEGER_TYPE, Body(b2))>>
      [] kind = "three functions" ->
            <<Function("f", <<>>, INTEGER_TYPE, Body(b1)),
              Function("f", <<>>, INTEGER_TYPE, Body("clean")),
              Main(INTEGER_TYPE, Body("clean")),
              Function("f", <<>>, INTEGER_TYPE, Body(b2))>>
      [] kind = "class" ->
            <<Class("K", <<>>, <<Function("m", <<>>, INTEGER_TYPE, Body(b1))>>),
              Main(INTEGER_TYPE, Body("clean")),
              Class("K", <<>>, <<Function("m", <<>>, INTEGER_TYPE, Body(b2))>>)>>
      [] kind = "method" ->
            <<Class("K", <<>>, <<Function("m", <<>>, INTEGER_TYPE, Body(b1)),
                                 Function("init", <<>>, INTEGER_TYPE, Body("clean")),
                                 Function("m", <<>>, INTEGER_TYPE, Body(b2))>>),
              Main(INTEGER_TYPE, Body("clean"))>>

\* func main() {..}  func <inbuilt name>() {..}
InbuiltNameProgram(name, b) ==
    <<Main(INTEGER_TYPE, Body("clean")), Function(name, <<>>, INTEGER_TYPE, Body(b))>>

DuplicatePrograms ==
    {DuplicateProgram(kind, b1, b2) :
        kind \in DuplicateKinds, b1 \in BodyKinds, b2 \in BodyKinds}
        \cup {InbuiltNameProgram(name, b) : name \in InbuiltNames, b \in BodyKinds}

\* The ways a call of f(x: int) is written.
CallKinds == {"ok", "arity", "type", "missing"}

CallOf(kind, a) ==
    CASE kind = "ok" -> Call("f", <<IntLit(a)>>)
      [] kind = "arity" -> Call("f", <<IntLit(a), IntLit(a)>>)
      [] kind = "type" -> Call("f", <<Lit(Bool(TRUE))>>)
      [] kind = "missing" -> Call("h", <<IntLit(a)>>)

\* func main() { return <call>; } and func f(x) { return x; }, in either order.
CallOrderProgram(kind, a, callee_first) ==
    IF callee_first
    THEN <<Identity1, Main(INTEGER_TYPE, <<Return(CallOf(kind, a))>>)>>
    ELSE <<Main(INTEGER_TYPE, <<Return(CallOf(kind, a))>>), Identity1>>

CallOrderPrograms ==
    {CallOrderProgram(kind, a, first) : kind \in CallKinds, a \in 0..1, first \in BOOLEAN}

\* func main() { return n; }
ReturnProgram(n) == <<Main(INTEGER_TYPE, <<Return(IntLit(n))>>)>>

\* The conditions of the if/else programs, and their truth.
CondKinds == {"true", "false", "0 < 1", "1 < 0", "1 == 1"}

Cond(kind) ==
    CASE kind = "true" -> Lit(Bool(TRUE))
      [] kind = "false" -> Lit(Bool(FALSE))
      [] kind = "0 < 1" -> Binary("LT", IntLit(0), IntLit(1))
      [] kind = "1 < 0" -> Binary("LT", IntLit(1), IntLit(0))
      [] kind = "1 == 1" -> Binary("EQ", IntLit(1), IntLit(1))

CondHolds(kind) == kind \in {"true", "0 < 1", "1 == 1"}

\* func main() { if (c) { return t; } else { return e; } }
IfElseReturn(kind, t, e) ==
    <<Main(INTEGER_TYPE,
           <<IfElse(Cond(kind), <<Return(IntLit(t))>>, <<Return(IntLit(e))>>)>>)>>

\* func main() { let x = 0; if (c) { let a = t; x = a; } else { let b = e; x = b; }
\*               return x; }
IfElseSet(kind, t, e) ==
    <<Main(INTEGER_TYPE,
           <<Declare("x", INTEGER_TYPE, IntLit(0)),
             IfElse(Cond(kind),
                    <<Declare("a", INTEGER_TYPE, IntLit(t)), SetVar("x", Ident("a"))>>,
                    <<Declare("b", INTEGER_TYPE, IntLit(e)), SetVar("x", Ident("b"))>>),
             Return(Ident("x"))>>)>>

IfElsePrograms ==
    {IfElseReturn(kind, t, e) : kind \in CondKinds, t \in 1..2, e \in 1..2}
        \cup {IfElseSet(kind, t, e) : kind \in CondKinds, t \in 1..2, e \in 1..2}

\* func main() { let s = 0; for (let i = 0; i < n; i = i + 1) { s = s + i; }
\*               return s; }
ForSumProgram(n) ==
    <<Main(INTEGER_TYPE,
           <<Declare("s", INTEGER_TYPE, IntLit(0)),
             For(Declare("i", INTEGER_TYPE, IntLit(0)),
                 Binary("LT", Ident("i"), IntLit(n)),
                 SetVar("i", Binary("ADD", Ident("i"), IntLit(1))),
                 <<SetVar("s", Binary("ADD", Ident("s"), Ident("i")))>>),
             Return(Ident("s"))>>)>>

ForSumPrograms == {ForSumProgram(n) : n \in LoopCounts}

\* func main() -> Integer { name(a); return 0; }, input being called with
\* no argument.
InbuiltCallProgram(name, a) ==
    <<Main(INTEGER_TYPE,
           <<ExprStmt(Call(name, IF name = "input" THEN <<>> ELSE <<IntLit(a)>>)),
             Return(IntLit(0))>>)>>

\* func g() { return; }  func main() -> Integer { g(); return a; }
ReturnNoneProgram(a) ==
    <<Function("g", <<>>, NullType, <<ReturnNone>>),
      Main(INTEGER_TYPE, <<ExprStmt(Call("g", <<>>)), Return(IntLit(a))>>)>>

\* func main() -> Integer { let x: [Integer] = new [Integer](a); return 0; }
InstanceProgram(a) ==
    <<Main(INTEGER_TYPE,
           <<Declare("x", array(INTEGER_TYPE), Instance(array(INTEGER_TYPE), <<IntLit(a)>>)),
             Return(IntLit(0))>>)>>

\* "own": the callee declares and sets an x of its own;
\* "read": the callee reads x, which only the caller has declared.
FrameKinds == {"own", "read"}

\* func f() -> Integer { let x = a + 1; x = x + 1; return x; }   ("own")
\* func f() -> Integer { return x; }                             ("read")
\* func main() -> Integer { let x = a; let y = f(); return x; }
FrameProgram(kind, a) ==
    <<Function("f", <<>>, INTEGER_TYPE,
               IF kind = "own"
               THEN <<Declare("x", INTEGER_TYPE, Binary("ADD", IntLit(a), IntLit(1))),
                      SetVar("x", Binary("ADD", Ident("x"), IntLit(1))),
                      Return(Ident("x"))>>
               ELSE <<Return(Ident("x"))>>),
      Main(INTEGER_TYPE,
           <<Declare("x", INTEGER_TYPE, IntLit(a)),
             Declare("y", INTEGER_TYPE, Call("f", <<>>)),
             Return(Ident("x"))>>)>>

\* func main() { let x = a; if (c) { let x = a + 1; } else { } return x; }
\* (the inner declaration is in the else branch when in_then is FALSE)
ShadowIf(c, in_then, a) ==
    LET inner == <<Declare("x", INTEGER_TYPE, Binary("ADD", IntLit(a), IntLit(1)))>>
    IN  <<Main(INTEGER_TYPE,
               <<Declare("x", INTEGER_TYPE, IntLit(a)),
                 IfElse(Lit(Bool(c)),
                        IF in_then THEN inner ELSE <<>>,
                        IF in_then THEN <<>> ELSE inner),
                 Return(Ident("x"))>>)>>

\* func main() { let x = a; for (let i = 0; i < n; i = i + 1) { let x = i; } return x; }
ShadowFor(n, a) ==
    <<Main(INTEGER_TYPE,
           <<Declare("x", INTEGER_TYPE, IntLit(a)),
             For(Declare("i", INTEGER_TYPE, IntLit(0)),
                 Binary("LT", Ident("i"), IntLit(n)),
                 SetVar("i", Binary("ADD", Ident("i"), IntLit(1))),
                 <<Declare("x", INTEGER_TYPE, Ident("i"))>>),
             Return(Ident("x"))>>)>>

\* The programs that declare x again inside a block of main.
ShadowPrograms ==
    {ShadowIf(c, t, a) : c \in BOOLEAN, t \in BOOLEAN, a \in Operands}
        \cup {ShadowFor(n, a) : n \in LoopCounts, a \in Operands}

\* The literal operands of the arithmetic programs: 1, 1.0 and "a".
ArithmeticOperands == {Integer(1), [t |-> "Float", v |-> 1], StringValue("a")}

\* The type the checker gives to l + r, or to -l, for these operands.
ArithmeticType(l, r) ==
    IF l.t = r.t THEN StaticValueType(l) ELSE FLOAT_TYPE

\* func main() -> Integer { let v: T = l + r; return 0; }
SumProgram(l, r) ==
    <<Main(INTEGER_TYPE,
           <<Declare("v", ArithmeticType(l, r), Binary("ADD", Lit(l), Lit(r))),
             Return(IntLit(0))>>)>>

\* func main() -> Integer { let v: T = -l; return 0; }
NegProgram(l) ==
    <<Main(INTEGER_TYPE,
           <<Declare("v", ArithmeticType(l, l), Unary("NEG", Lit(l))),
             Return(IntLit(0))>>)>>

ArithmeticPrograms ==
    {SumProgram(l, r) : l \in ArithmeticOperands, r \in ArithmeticOperands}
        \cup {NegProgram(l) : l \in ArithmeticOperands}
        \cup {BinaryProgram(op, a, b) : op \in ArithOps, a \in Operands, b \in Operands}

\* func main() -> Integer { let a = 1; }  func g() -> Integer { return a; }:
\* main has no return statement and g's code follows main's.
FallThroughProgram(a) ==
    <<Main(INTEGER_TYPE, <<Declare("a", INTEGER_TYPE, IntLit(1))>>),
      Function("g", <<>>, INTEGER_TYPE, <<Return(IntLit(a))>>)>>

Programs ==
    {BinaryProgram(op, a, b) : op \in BinOps, a \in Operands, b \in Operands}
        \cup CallPrograms
        \cup {NoMainProgram, FallOffProgram}
        \cup {UndefinedCallProgram(negated) : negated \in BOOLEAN}
        \cup VarDropPrograms
        \cup {VarKeptProgram(c) : c \in BOOLEAN}
        \cup UnaryPrograms
        \cup ItemsPrograms
        \cup {InbuiltProgram(a) : a \in Operands}
        \cup DuplicatePrograms
        \cup CallOrderPrograms
        \cup {ReturnProgram(n) : n \in Operands}
        \cup IfElsePrograms
        \cup ForSumPrograms
        \cup {InbuiltCallProgram(name, a) : name \in InbuiltNames, a \in Operands}
        \cup {BinaryProgram("NE", a, b) : a \in Operands, b \in Operands}
        \cup {ReturnNoneProgram(a) : a \in Operands}
        \cup {InstanceProgram(a) : a \in Operands}
        \cup {FrameProgram(kind, a) : kind \in FrameKinds, a \in Operands}
        \cup ShadowPrograms
        \cup ArithmeticPrograms
        \cup {FallThroughProgram(a) : a \in Operands}

(***************************************************************************)
(* The tool chain as a state machine.                                      *)
(***************************************************************************)
NoCode == [bytecode |-> <<>>, labels |-> <<>>]

NoInstruction == [instr |-> Instr("none"), at |-> -1, st |-> "none"]

\* A usize, as wraps * 2^64 + v; run() has not returned while wraps is -1.
Usize(wraps, v) == [wraps |-> wraps, v |-> v]

NoExit == Usize(-1, 0)

\* The subtyping variables, at rest while the tool chain runs.
TypesIdle ==
    /\ tyS = NullType
    /\ tyT = NullType
    /\ tyU = NullType
    /\ evaluated = FALSE
    /\ rel = [p \in {} |-> FALSE]

\* The tool chain before it has been given a program to work on.
MachineOff ==
    /\ code = NoCode
    /\ pc = "source"
    /\ messages = <<>>
    /\ abra_types = [x \in {} |-> NullType]
    /\ global_functions = [x \in {} |-> NullType]
    /\ visited = <<>>
    /\ pipeline_result = "none"
    /\ rsi = 0
    /\ rbi = 0
    /\ stack = <<>>
    /\ stack_frames = <<>>
    /\ vm_status = "off"
    /\ vm_fault = "none"
    /\ exit_code = NoExit
    /\ executed = NoInstruction
    /\ allocs = <<>>

Init ==
    /\ TypesIdle
    /\ ast \in Programs
    /\ mode \in {"pipeline", "direct"}
    /\ MachineOff

\* cli: compilation_pipepline compiles, then checks, and fails on an Error.
compilation_pipepline ==
    /\ mode = "pipeline"
    /\ pc = "source"
    /\ LET checked(t) ==
                /\ messages' = t.messages
                /\ abra_types' = t.abra_types
                /\ global_functions' = t.global_functions
                /\ visited' = t.visited
                /\ pipeline_result' = IF CompilationFailed(t.messages) THEN "Err" ELSE "Ok"
       IN  checked(check(ast))
    /\ code' = compile_from_ast(ast)
    /\ pc' = "compiled"
    /\ UNCHANGED <<typeVars, ast, mode, vmVars>>

\* main.rs, test.rs: compile_from_ast alone, no type checker.
abra_compile_test ==
    /\ mode = "direct"
    /\ pc = "source"
    /\ code' = compile_from_ast(ast)
    /\ pc' = "compiled"
    /\ UNCHANGED <<typeVars, ast, mode, checkVars, vmVars>>

\* ByteCodeMachine::new on the Code; the cli stops on a failed pipeline.
ByteCodeMachineNew ==
    /\ pc = "compiled"
    /\ mode = "pipeline" => pipeline_result = "Ok"
    /\ pc' = "machine"
    /\ rbi' = LabelIndex(code.labels, "_start")
    /\ rsi' = 0
    /\ stack' = <<>>
    /\ stack_frames' = <<>>
    /\ vm_status' = "running"
    /\ UNCHANGED <<typeVars, ast, mode, code, checkVars, vm_fault, exit_code, executed, allocs>>

Running == pc = "machine" /\ vm_status = "running"

InRange == rbi >= 0 /\ rbi < Len(code.bytecode)

Current == code.bytecode[rbi + 1]

Fetch(op) == Running /\ InRange /\ Current.op = op

\* run() on what next() returned: Ok(true) moves to the next instruction,
\* Err returns 1, a panic ends the process.
Complete(r) ==
    /\ rsi' = r.m.rsi
    /\ stack' = r.m.stack
    /\ stack_frames' = r.m.stack_frames
    /\ allocs' = r.m.allocs
    /\ rbi' = IF r.st = "ok" THEN r.m.rbi + 1 ELSE r.m.rbi
    /\ vm_status' = IF r.st = "ok" THEN "running" ELSE r.st
    /\ vm_fault' = r.fault
    /\ exit_code' = IF r.st = "error" THEN Usize(0, 1) ELSE exit_code
    /\ executed' = [instr |-> Current, at |-> rbi, st |-> r.st]
    /\ UNCHANGED <<typeVars, ast, mode, code, pc, checkVars>>

\* i64 as usize
AsUsize(n) == IF n >= 0 THEN Usize(0, n) ELSE Usize(1, n)

next_PUSH == Fetch("PUSH") /\ Complete(push_to_stack(Machine, Current.v))

next_ADD == Fetch("ADD") /\ Complete(exec_Arith(Machine, "ADD"))

next_SUB == Fetch("SUB") /\ Complete(exec_SUB(Machine))

next_MULT == Fetch("MULT") /\ Complete(exec_Arith(Machine, "MULT"))

next_DIV == Fetch("DIV") /\ Complete(exec_DIV(Machine))

next_NEGATE == Fetch("NEGATE") /\ Complete(exec_NotBool(Machine))

next_NOT == Fetch("NOT") /\ Complete(exec_NotBool(Machine))

next_EQUALS == Fetch("EQUALS") /\ Complete(exec_Compare(Machine, "EQUALS"))

next_GREATER == Fetch("GREATER") /\ Complete(exec_Compare(Machine, "GREATER"))

next_LESSER == Fetch("LESSER") /\ Complete(exec_Compare(Machine, "LESSER"))

\* EQGREAT and EQLESS: Value::ge and Value::le call themselves without end;
\* the process overflows its stack or never returns.
Unbounded(m) ==
    LET p == Pop2(m)
    IN  IF p.st # "ok" THEN {[st |-> p.st, m |-> p.m, fault |-> p.fault]}
        ELSE {[st |-> o, m |-> p.m, fault |-> "unbounded recursion"] : o \in {"panic", "hang"}}

next_EQGREAT == Fetch("EQGREAT") /\ \E r \in Unbounded(Machine) : Complete(r)

next_EQLESS == Fetch("EQLESS") /\ \E r \in Unbounded(Machine) : Complete(r)

next_JMPTO == Fetch("JMPTO") /\ Complete(exec_JMPTO(Machine, code.labels, Current))

next_JITL == Fetch("JITL") /\ Complete(exec_JITL(Machine, code.labels, Current))

next_SAVEVARLOCAL == Fetch("SAVEVARLOCAL") /\ Complete(exec_SAVEVARLOCAL(Machine, Current))

next_GETVARLOCAL == Fetch("GETVARLOCAL") /\ Complete(exec_GETVARLOCAL(Machine, Current))

next_CALL == Fetch("CALL") /\ Complete(exec_CALL(Machine, code.labels, Current))

next_RET == Fetch("RET") /\ Complete(exec_RET(Machine, Current))

next_DEFVAR == Fetch("DEFVAR") /\ Complete(exec_DEFVAR(Machine, Current))

next_DROPVAR == Fetch("DROPVAR") /\ Complete(exec_DROPVAR(Machine, Current))

\* EXIT: next() returns Ok(false) and run() returns the popped Integer.
next_EXIT ==
    /\ Fetch("EXIT")
    /\ LET p == pop_from_stack(Machine)
       IN  /\ rsi' = p.m.rsi
           /\ IF p.st = "ok" /\ p.v.t = "Integer"
              THEN /\ vm_status' = "exited"
                   /\ vm_fault' = "none"
                   /\ exit_code' = AsUsize(p.v.v)
              ELSE /\ vm_status' = "panic"
                   /\ vm_fault' = "unwrap on exit"
                   /\ exit_code' = exit_code
    /\ executed' = [instr |-> Current, at |-> rbi, st |-> "ok"]
    /\ UNCHANGED <<typeVars, ast, mode, code, pc, checkVars, rbi, stack, stack_frames, allocs>>

\* self.bytecode[index] with the index past the end of the code.
next_OutOfRange ==
    /\ Running
    /\ ~InRange
    /\ vm_status' = "panic"
    /\ vm_fault' = "bytecode index out of range"
    /\ UNCHANGED <<typeVars, ast, mode, code, pc, checkVars,
                   rsi, rbi, stack, stack_frames, exit_code, executed, allocs>>

Next ==
    \/ compilation_pipepline
    \/ abra_compile_test
    \/ ByteCodeMachineNew
    \/ next_PUSH
    \/ next_ADD
    \/ next_SUB
    \/ next_MULT
    \/ next_DIV
    \/ next_NEGATE
    \/ next_NOT
    \/ next_EQUALS
    \/ next_GREATER
    \/ next_LESSER
    \/ next_EQGREAT
    \/ next_EQLESS
    \/ next_JMPTO
    \/ next_JITL
    \/ next_SAVEVARLOCAL
    \/ next_GETVARLOCAL
    \/ next_CALL
    \/ next_RET
    \/ next_DEFVAR
    \/ next_DROPVAR
    \/ next_EXIT
    \/ next_OutOfRange

Spec == Init /\ [][Next]_vars

(***************************************************************************)
(* The machine on bytecode read from a file (go, execute): Code that       *)
(* creates heap objects, copies their Refs, writes and reads through the   *)
(* copies and compares them, while the host may delete an object through   *)
(* any Ref the machine holds.                                              *)
(***************************************************************************)
\* Array, Map with Integer keys, Map with String keys, boxed value.
ObjectKinds == {"Array", "Map", "StringMap", "BoxedValue"}

\* How the second Ref is obtained: a copy of the first, or a new object.
CopyKinds == {"DUP", "GETVARLOCAL", "stored", "fresh"}

HeapValues == {Integer(1), Integer(2)}

\* The index or key the Code reads and writes.
Key(kind) ==
    CASE kind = "Map" -> Integer(7)
      [] kind = "StringMap" -> StringValue("k")
      [] OTHER -> Integer(0)

\* An object of the kind that holds a at Key(kind).
NewObject(kind, a) ==
    CASE kind = "Array" -> <<PUSH(a), InstanceOp(array(INTEGER_TYPE), 1)>>
      [] kind = "Map" ->
            <<PUSH(a), PUSH(Key(kind)), InstanceOp(map(INTEGER_TYPE, INTEGER_TYPE), 2)>>
      [] kind = "StringMap" ->
            <<PUSH(a), PUSH(Key(kind)), InstanceOp(map(STRING_TYPE, INTEGER_TYPE), 2)>>
      [] kind = "BoxedValue" -> <<PUSH(a), InstanceOp(heap(INTEGER_TYPE), 1)>>

\* Two Refs, in the local variables r and s.
TwoRefs(kind, copy, a) ==
    NewObject(kind, a) \o
    CASE copy = "DUP" -> <<Instr("DUP"), SAVEVARLOCAL("r"), SAVEVARLOCAL("s")>>
      [] copy = "GETVARLOCAL" -> <<SAVEVARLOCAL("r"), GETVARLOCAL("r"), SAVEVARLOCAL("s")>>
      [] copy = "stored" ->
            <<SAVEVARLOCAL("r"), GETVARLOCAL("r"),
              InstanceOp(array(array(INTEGER_TYPE)), 1), SAVEVARLOCAL("box"),
              PUSH(Integer(0)), GETVARLOCAL("box"), Instr("GETFROMREF"), SAVEVARLOCAL("s")>>
      [] copy = "fresh" -> <<SAVEVARLOCAL("r")>> \o NewObject(kind, a) \o <<SAVEVARLOCAL("s")>>

\* What main does with the two Refs.
UseKinds == {"write_read", "EQUALS"}

Use(kind, use, b) ==
    CASE use = "write_read" ->
            <<PUSH(Key(kind)), GETVARLOCAL("r"), PUSH(b), Instr("SAVETOREF"),
              PUSH(Key(kind)), GETVARLOCAL("s"), Instr("GETFROMREF")>>
      [] use = "EQUALS" -> <<GETVARLOCAL("s"), GETVARLOCAL("r"), Instr("EQUALS")>>

HeapCode(kind, copy, use, a, b) ==
    [bytecode |-> <<CALL("main", 0), Instr("EXIT")>> \o TwoRefs(kind, copy, a)
                  \o Use(kind, use, b) \o <<RET(TRUE)>>,
     labels |-> <<<<"_start", 0>>, <<"main", 2>>>>]

HeapCodes ==
    {HeapCode(kind, copy, use, a, b) :
        kind \in ObjectKinds, copy \in CopyKinds, use \in UseKinds,
        a \in HeapValues, b \in HeapValues}

InitHeap ==
    /\ TypesIdle
    /\ ast = <<>>
    /\ mode = "go"
    /\ code \in HeapCodes
    /\ pc = "compiled"
    /\ messages = <<>>
    /\ abra_types = [x \in {} |-> NullType]
    /\ global_functions = [x \in {} |-> NullType]
    /\ visited = <<>>
    /\ pipeline_result = "none"
    /\ rsi = 0
    /\ rbi = 0
    /\ stack = <<>>
    /\ stack_frames = <<>>
    /\ vm_status = "off"
    /\ vm_fault = "none"
    /\ exit_code = NoExit
    /\ executed = NoInstruction
    /\ allocs = <<>>

next_InstanceOp == Fetch("INSTANCE") /\ Complete(exec_InstanceOp(Machine, Current))

next_DUP == Fetch("DUP") /\ Complete(exec_DUP(Machine))

next_GETFROMREF == Fetch("GETFROMREF") /\ Complete(exec_GETFROMREF(Machine))

next_SAVETOREF == Fetch("SAVETOREF") /\ Complete(exec_SAVETOREF(Machine))

\* ByteCodeMachine::delete, called between two instructions on a Ref the
\* machine holds.
delete ==
    /\ Running
    /\ \E reference \in HeldRefs(Machine) :
            allocs' = [allocs EXCEPT ![reference.towards] = Ref_delete(@)]
    /\ UNCHANGED <<typeVars, ast, mode, code, pc, checkVars,
                   rsi, rbi, stack, stack_frames, vm_status, vm_fault, exit_code, executed>>

NextHeap ==
    \/ ByteCodeMachineNew
    \/ next_PUSH
    \/ next_DUP
    \/ next_EQUALS
    \/ next_SAVEVARLOCAL
    \/ next_GETVARLOCAL
    \/ next_CALL
    \/ next_RET
    \/ next_InstanceOp
    \/ next_GETFROMREF
    \/ next_SAVETOREF
    \/ next_EXIT
    \/ delete

SpecHeap == InitHeap /\ [][NextHeap]_vars

(***************************************************************************)
(* Properties of the tool chain.                                           *)
(***************************************************************************)
\* Where the machine stands once the prologue of function name (nparams
\* parameters) has run: at the first instruction of its body, in its frame.
AtBodyOf(name, nparams) ==
    /\ Running
    /\ stack_frames # <<>>
    /\ TopFrame(Machine).name = name
    /\ HasLabel(code.labels, name)
    /\ rbi = LabelIndex(code.labels, name) + nparams

\* The local variable name of the running frame holds v.
Bound(name, v) ==
    /\ name \in DOMAIN TopFrame(Machine).local_variables
    /\ TopFrame(Machine).local_variables[name] = v

\* The bytecode index of the last read of variable name in the code.
LastRead(name) ==
    CHOOSE n \in 0..(Len(code.bytecode) - 1) :
        /\ code.bytecode[n + 1] = GETVARLOCAL(name)
        /\ \A k \in (n + 1)..(Len(code.bytecode) - 1) :
                code.bytecode[k + 1] # GETVARLOCAL(name)

\* The names of the function bodies and method bodies of a program, in order.
RECURSIVE Bodies(_, _)
Bodies(items, n) ==
    IF n > Len(items) THEN <<>>
    ELSE (IF items[n].i = "Function" THEN <<items[n].name>>
          ELSE [k \in 1..Len(items[n].functions) |->
                    MethodLabel(items[n].name, items[n].functions[k].name)])
            \o Bodies(items, n + 1)

\* C1: for `a - b` over Integers, the code the compiler emits (b, then a,
\* then SUB) pushes the Integer a minus b.
C1_SubPushesDifference ==
    \A a \in Operands, b \in Operands :
        (/\ ast = BinaryProgram("SUB", a, b)
         /\ executed.instr.op = "SUB"
         /\ executed.st = "ok")
            => StackAt(stack, rsi - 1) = Integer(a - b)

\* C2: when f(a1..an) is called, at the start of the body of f every
\* parameter is bound to its argument and nothing below the arguments has
\* been taken off the operand stack; the prologue itself does not fail.
C2_ParametersBoundToArguments ==
    /\ \A a \in Operands :
            (ast = CallProgram1(a) /\ AtBodyOf("f", 1))
                => (Bound("x", Integer(a)) /\ rsi = 0)
    /\ \A a \in Operands, k \in Operands :
            (ast = CallProgram1Over(a, k) /\ AtBodyOf("f", 1))
                => (Bound("x", Integer(a)) /\ rsi = 1 /\ StackAt(stack, 0) = Integer(k))
    /\ \A a \in 0..1, b \in 0..1, k \in Operands :
            (ast = CallProgram2Over(a, b, k) /\ AtBodyOf("f", 2))
                => (/\ Bound("x", Integer(a)) /\ Bound("y", Integer(b))
                    /\ rsi = 1 /\ StackAt(stack, 0) = Integer(k))
    /\ (ast \in CallPrograms /\ executed.instr.op = "DEFVAR") => executed.st = "ok"

\* C3: a program the type checker accepts with zero Error messages, once
\* compiled and run, never fails on a label that is absent from the label
\* table, nor on an empty call-frame stack.
C3_AcceptedNeverFailsOnLabelOrFrame ==
    (mode = "pipeline" /\ pipeline_result = "Ok")
        => vm_fault \notin {"missing label", NoFrames}

UnaryMismatch(op, operand) ==
    IF op = "NEG"
    THEN ~is_subtype_of(operand, INTEGER_TYPE) /\ ~is_subtype_of(operand, FLOAT_TYPE)
    ELSE ~is_subtype_of(operand, BOOL_TYPE)

\* C9: a unary `-` on an operand that is neither Integer nor Float, or a
\* unary `!` on an operand that is not Bool, is given the Null type and an
\* Error, and the pipeline rejects the program that contains it.
C9_UnaryMismatchRejected ==
    \A op \in UnaryOps, v \in UnaryOperands, ty \in {INTEGER_TYPE, BOOL_TYPE} :
        (/\ ast = UnaryProgram(op, v, ty)
         /\ UnaryMismatch(op, StaticValueType(v))
         /\ pipeline_result # "none")
            => (/\ type_eval_expression(Unary(op, Lit(v)), [x \in {} |-> NullType],
                                        [abra_types |-> abra_types,
                                         global_functions |-> global_functions]).ty
                        = NullType
                /\ pipeline_result = "Err"
                /\ \E n \in 1..Len(messages) : messages[n].sev = "Error")

\* C10: compilation_pipepline fails exactly when the checker recorded an
\* Error (Warnings alone do not fail it), and the checker has then been
\* through every function body and every method body.
C10_FailsIffErrorAllBodiesVisited ==
    pipeline_result # "none" =>
        /\ (pipeline_result = "Err")
                <=> (\E n \in 1..Len(messages) : messages[n].sev = "Error")
        /\ visited = Bodies(ast, 1)

C10_Witness ==
    /\ ast = ItemsProgram("error", "warning", "clean")
    /\ pipeline_result = "Err"
    /\ \E n \in 1..Len(messages) : messages[n].sev = "Error"
    /\ \E n \in 1..Len(messages) : messages[n].sev = "Warning"
    /\ visited = <<"f", "K::m", "main">>

\* The top-level functions named like an earlier one or like an inbuilt.
DuplicateFunctions(items) ==
    {n \in 1..Len(items) :
        /\ items[n].i = "Function"
        /\ \/ items[n].name \in InbuiltNames
           \/ \E k \in 1..(n - 1) :
                    items[k].i = "Function" /\ items[k].name = items[n].name}

\* The classes named like an earlier class.
DuplicateClasses(items) ==
    {n \in 1..Len(items) :
        /\ items[n].i = "Class"
        /\ \E k \in 1..(n - 1) : items[k].i = "Class" /\ items[k].name = items[n].name}

\* The methods named like an earlier method of their class.
DuplicateMethods(items) ==
    {p \in (1..Len(items)) \X (1..3) :
        /\ items[p[1]].i = "Class"
        /\ p[2] <= Len(items[p[1]].functions)
        /\ \E k \in 1..(p[2] - 1) :
                items[p[1]].functions[k].name = items[p[1]].functions[p[2]].name}

\* How many of the messages are the Error of this kind.
ErrorCount(msgs, kind) == Cardinality({n \in 1..Len(msgs) : msgs[n] = Error(kind)})

\* C11: pass 1 records one Error for every function named like an earlier
\* function or an inbuilt, one for every class declared again and one for
\* every method name repeated in a class, and pass 2 still goes through
\* every body.
C11_DuplicatesRecordedBodiesChecked ==
    pipeline_result # "none" =>
        /\ ErrorCount(messages, "duplicate global function")
                = Cardinality(DuplicateFunctions(ast))
        /\ ErrorCount(messages, "duplicate class") = Cardinality(DuplicateClasses(ast))
        /\ ErrorCount(messages, "duplicate method") = Cardinality(DuplicateMethods(ast))
        /\ (DuplicateFunctions(ast) \cup DuplicateClasses(ast) \cup DuplicateMethods(ast)) # {}
                => (pipeline_result = "Err" /\ visited = Bodies(ast, 1))

C11_Witness ==
    /\ ast = DuplicateProgram("three functions", "warning", "error")
    /\ pipeline_result = "Err"
    /\ ErrorCount(messages, "duplicate global function") = 2
    /\ ErrorCount(messages, "return type mismatch") = 1
    /\ visited = <<"f", "f", "main", "f">>

\* The messages the checker is to give for each way of writing the call.
CallMessages(kind) ==
    CASE kind = "ok" -> <<>>
      [] kind = "arity" -> <<Error("call arity")>>
      [] kind = "type" -> <<Error("call argument")>>
      [] kind = "missing" -> <<Error("function not found")>>

\* C12: the messages for a call are the same whether the callee is declared
\* before or after the caller: the call is checked against the callee's
\* signature (existence, arity, argument types) in both orders.
C12_CallMessagesOrderIndependent ==
    \A kind \in CallKinds, a \in 0..1, first \in BOOLEAN :
        (ast = CallOrderProgram(kind, a, first) /\ pipeline_result # "none")
            => (/\ messages = check(CallOrderProgram(kind, a, ~first)).messages
                /\ messages = CallMessages(kind))

C12_Witness ==
    /\ ast = CallOrderProgram("type", 1, FALSE)
    /\ pipeline_result = "Err"
    /\ messages = <<Error("call argument")>>
    /\ check(CallOrderProgram("type", 1, TRUE)).messages = <<Error("call argument")>>

\* C13: for main returning the non-negative Integer n, run() starts at
\* _start, calls main, reaches EXIT with main's frame popped and n on top
\* of the operand stack, and returns n; it ends in no other way.
C13_ExitCodeIsMainsReturn ==
    \A n \in Operands :
        ast = ReturnProgram(n) =>
            /\ (pc = "machine" /\ executed = NoInstruction)
                    => (rbi = LabelIndex(code.labels, "_start")
                        /\ Current = CALL("main", 0))
            /\ Fetch("EXIT")
                    => (stack_frames = <<>> /\ rsi = 1 /\ StackAt(stack, 0) = Integer(n))
            /\ vm_status \notin {"off", "running"}
                    => (/\ vm_status = "exited"
                        /\ executed.instr.op = "EXIT"
                        /\ stack_frames = <<>>
                        /\ exit_code = Usize(0, n)
                        /\ (n = 0 <=> exit_code = Usize(0, 0)))

C13_Witness ==
    /\ ast = ReturnProgram(1)
    /\ vm_status = "exited"
    /\ executed.instr.op = "EXIT"
    /\ stack_frames = <<>>
    /\ exit_code = Usize(0, 1)

\* The bytecode index of the first instruction op of the code.
FirstIndexOf(op) ==
    CHOOSE n \in 0..(Len(code.bytecode) - 1) :
        /\ code.bytecode[n + 1].op = op
        /\ \A k \in 0..(n - 1) : code.bytecode[k + 1].op # op

\* The instructions of the then-block of the first if/else of the code, with
\* the JMPTO that ends it, and those of its else-block: the JITL names the
\* label at the start of the else-block, the JMPTO the label at its end.
ThenBlock ==
    (FirstIndexOf("JITL") + 1)
        ..(LabelIndex(code.labels, code.bytecode[FirstIndexOf("JITL") + 1].label) - 1)

ElseBlock ==
    LabelIndex(code.labels, code.bytecode[FirstIndexOf("JITL") + 1].label)
        ..(LabelIndex(code.labels, code.bytecode[FirstIndexOf("JMPTO") + 1].label) - 1)

\* C14: of an if with an else exactly one block runs: no instruction of the
\* else-block when the condition is true, none of the then-block when it is
\* false, and the run ends with the value of the block of the condition's
\* truth as the exit code.
C14_ExactlyOneBranchRuns ==
    \A kind \in CondKinds, t \in 1..2, e \in 1..2 :
        (ast \in {IfElseReturn(kind, t, e), IfElseSet(kind, t, e)} /\ pc = "machine") =>
            /\ executed.at \notin (IF CondHolds(kind) THEN ElseBlock ELSE ThenBlock)
            /\ vm_status # "running" =>
                    /\ vm_status = "exited"
                    /\ exit_code = Usize(0, IF CondHolds(kind) THEN t ELSE e)

C14_Witness ==
    /\ ast = IfElseSet("1 < 0", 1, 2)
    /\ vm_status = "exited"
    /\ exit_code = Usize(0, 2)
    /\ ThenBlock # {} /\ ElseBlock # {}
    /\ code.bytecode[FirstIndexOf("JMPTO") + 1].op = "JMPTO"
    /\ FirstIndexOf("JMPTO") \in ThenBlock

\* 0 + 1 + ... + (k - 1)
SumBelow(k) == (k * (k - 1)) \div 2

\* In the code of a for loop: the second label the compiler takes is put at
\* the condition, the first one at the loop's exit; the init statement is
\* the two instructions before the condition, the body starts after the JITL.
CondStart == LabelIndex(code.labels, "_1")

LoopStart == CondStart - 2

BodyStart == FirstIndexOf("JITL") + 1

LoopExit == LabelIndex(code.labels, "_0")

\* The machine is about to execute the instruction at index n.
Before(n) == Running /\ rbi = n

\* What holds of the summing loop in every state of its run.
ForSumInvariant(n) ==
    pc = "machine" =>
        /\ Before(LoopStart) => rsi = 0
        /\ Before(CondStart) =>
                \E k \in 0..n : Bound("i", Integer(k)) /\ Bound("s", Integer(SumBelow(k)))
        /\ Before(BodyStart) =>
                /\ executed.instr.op = "JITL"
                /\ \E k \in 0..(n - 1) :
                        Bound("i", Integer(k)) /\ Bound("s", Integer(SumBelow(k)))
        /\ Before(LoopExit) =>
                /\ executed.instr.op = "JITL"
                /\ Bound("i", Integer(n))
                /\ Bound("s", Integer(SumBelow(n)))
                /\ rsi = 0
        /\ vm_status # "running" =>
                (vm_status = "exited" /\ exit_code = Usize(0, SumBelow(n)))

\* The passes the loop has not finished: n less the counter i, one more
\* while the incremented counter waits for the jump back, none once the loop
\* has been left.
PassesLeft(n) ==
    IF rbi >= LoopExit THEN 0
    ELSE IF "i" \notin DOMAIN TopFrame(Machine).local_variables THEN n
    ELSE n - TopFrame(Machine).local_variables["i"].v
            + (IF rbi = LoopExit - 1 THEN 1 ELSE 0)

\* A measure of what is left of the run of the summing loop: 0 once run()
\* has returned, 1 at EXIT, the unfinished passes and the rest of the code
\* while main runs, more than all of these before main is called.
ForSumMeasure(n) ==
    IF vm_status # "running" THEN 0
    ELSE IF stack_frames # <<>>
    THEN 2 + PassesLeft(n) * Len(code.bytecode) + (Len(code.bytecode) - rbi)
    ELSE IF rbi = 0 THEN 2 + (n + 3) * Len(code.bytecode)
    ELSE 1

\* C15: the loop `for let i = 0, i < n, i = i + 1` adding i to an accumulator
\* ends for every n: the condition is evaluated before each pass, the body
\* is entered with i = 0 .. n - 1 and left for good with i = n, the
\* accumulator is then 0 + 1 + ... + (n - 1) and the operand-stack index is
\* what it was before the loop; the running machine always has a step to
\* take and every step lowers a measure that is a natural number.
C15_ForLoopSumsAndTerminates ==
    /\ [](\A n \in LoopCounts :
            ast = ForSumProgram(n) =>
                /\ ForSumInvariant(n)
                /\ Running => (ENABLED Next /\ ForSumMeasure(n) > 0))
    /\ [][\A n \in LoopCounts :
            (ast = ForSumProgram(n) /\ Running) =>
                (ForSumMeasure(n)' >= 0 /\ ForSumMeasure(n)' < ForSumMeasure(n))]_vars

C15_Witness ==
    /\ ast = ForSumProgram(MaxLoop)
    /\ Before(BodyStart)
    /\ Bound("i", Integer(MaxLoop - 1))
    /\ Bound("s", Integer(SumBelow(MaxLoop - 1)))

\* The ways an instruction fails to complete that C16 is about.
FailureCauses ==
    {"missing label", UndefinedVariable, NoFrames, "expected bool", "Null not expected"}

\* C16: when an instruction cannot complete (a missing label, an unbound
\* variable, a value of the wrong kind, a RET with no call frame), run()
\* stops at that instruction with the Err outcome and returns a non-zero
\* exit code; the process does not crash.
C16_FailedInstructionReturnsNonZero ==
    vm_fault \in FailureCauses =>
        /\ vm_status = "error"
        /\ executed.st = "error"
        /\ exit_code # NoExit
        /\ exit_code # Usize(0, 0)

\* Offsets and values a get or a set may be handed.
HeapOffsets ==
    HeapValues \cup {Integer(0), Integer(7), Bool(TRUE), StringValue("k"), NullValue}

\* The local variables of the running function.
Locals ==
    IF stack_frames = <<>> THEN [x \in {} |-> NullValue]
    ELSE stack_frames[Len(stack_frames)].local_variables

\* The Ref a GETFROMREF, or a SAVETOREF, about to run will go through.
RefOfGet == StackAt(stack, rsi - 1)

RefOfSave == StackAt(stack, rsi - 2)

\* C17: once delete() has been called through any Ref to an object, every get
\* and every set through any Ref to that object fails with "Cannot dereference
\* null" in every later state (no operation revives the object), GETFROMREF
\* and SAVETOREF included, and delete leaves the identity of the object alone.
C17_DeletedObjectStaysNull ==
    /\ [](\A n \in DOMAIN allocs : allocs[n].deleted =>
            \A at \in HeapOffsets :
                /\ RefHeader_get(allocs[n], at).st = "error"
                /\ RefHeader_get(allocs[n], at).fault = NullDereference
                /\ \A with \in HeapOffsets :
                        /\ RefHeader_set(allocs[n], at, with).st = "error"
                        /\ RefHeader_set(allocs[n], at, with).fault = NullDereference
                        /\ RefHeader_set(allocs[n], at, with).h = allocs[n])
    /\ [][/\ \A n \in DOMAIN allocs :
               /\ n \in DOMAIN allocs'
               /\ allocs'[n].uuid = allocs[n].uuid
               /\ (allocs[n].deleted => allocs'[n].deleted)
          /\ (Fetch("GETFROMREF") /\ rsi >= 2 /\ RefOfGet.t = "Ref"
                   /\ allocs[RefOfGet.towards].deleted /\ executed'.at = rbi)
               => (vm_status' = "error" /\ vm_fault' = NullDereference)
          /\ (Fetch("SAVETOREF") /\ rsi >= 3 /\ RefOfSave.t = "Ref"
                   /\ allocs[RefOfSave.towards].deleted /\ executed'.at = rbi)
               => (vm_status' = "error" /\ vm_fault' = NullDereference)]_vars

\* A GETFROMREF through the copy in s failed on an object deleted earlier,
\* with the copy in r still held.
C17_Witness ==
    /\ vm_status = "error"
    /\ vm_fault = NullDereference
    /\ executed.instr.op = "GETFROMREF"
    /\ "r" \in DOMAIN Locals
    /\ Locals["r"].t = "Ref"
    /\ allocs[Locals["r"].towards].deleted
    /\ executed.at > 0
    /\ code.bytecode[executed.at] = GETVARLOCAL("s")
    /\ Locals["s"] = Locals["r"]

\* C18: two Refs are equal exactly when they designate the same heap object,
\* whatever the objects hold, both for Ref equality and for EQUALS on two Ref
\* values: EQUALS pushes true on two copies of one Ref and false on Refs to
\* two objects.
C18_RefsEqualIffSameObject ==
    /\ [](\A a \in HeldRefs(Machine) : \A b \in HeldRefs(Machine) :
            Ref_eq(allocs, a, b) <=> a.towards = b.towards)
    /\ [][(Fetch("EQUALS") /\ rsi >= 2 /\ executed'.at = rbi
                /\ StackAt(stack, rsi - 1).t = "Ref" /\ StackAt(stack, rsi - 2).t = "Ref")
            => StackAt(stack', rsi - 2)
                = Bool(StackAt(stack, rsi - 1).towards = StackAt(stack, rsi - 2).towards)]_vars

\* C19: every copy of a Ref, made by GETVARLOCAL, by DUP, or by storing the
\* Ref in a variable or in another object, designates the one shared object:
\* after a SAVETOREF through one copy, a GETFROMREF of the same index or key
\* through another copy of the Ref to the live object pushes the value that
\* was written.
C19_CopiesShareOneObject ==
    [][\A kind \in ObjectKinds : \A copy \in CopyKinds \ {"fresh"} :
        \A a \in HeapValues : \A b \in HeapValues :
            (/\ code = HeapCode(kind, copy, "write_read", a, b)
             /\ Fetch("GETFROMREF")
             /\ rbi = Len(code.bytecode) - 2
             /\ executed'.at = rbi
             /\ ~allocs[RefOfGet.towards].deleted)
                => (executed'.st = "ok" /\ StackAt(stack', rsi' - 1) = b)]_vars

\* C20: sqrt called with an Integer argument pushes a Float, the kind its
\* declared return type promises, and never an Integer.
C20_SqrtOfIntegerPushesFloat ==
    [][(Fetch("CALL") /\ Current = CALL("sqrt", 1) /\ rsi >= 1
            /\ StackAt(stack, rsi - 1).t = "Integer" /\ executed'.st = "ok")
        => StackAt(stack', rsi' - 1).t = "Float"]_vars

\* C21: a successful CALL of an inbuilt function (print, sqrt, exp, input)
\* pops exactly argc values, pushes exactly one value when the declared
\* return type is not Null and none when it is Null, pushes no call frame,
\* and execution continues at the instruction after the CALL.
C21_InbuiltCallStackEffect ==
    [][(Fetch("CALL") /\ Current.name \in InbuiltNames
            /\ executed'.at = rbi /\ executed'.st = "ok")
        => /\ rsi' = rsi - Current.argc
                    + (IF InbuiltSignatures[Current.name].return_type = NullType
                       THEN 0 ELSE 1)
           /\ stack_frames' = stack_frames
           /\ rbi' = rbi + 1]_vars

CompareOps == {"EQ", "NE", "LT", "LE", "GT", "GE"}

\* a op b on two Integers.
CompareHolds(op, a, b) ==
    CASE op = "EQ" -> a = b
      [] op = "NE" -> a # b
      [] op = "LT" -> a < b
      [] op = "LE" -> a <= b
      [] op = "GT" -> a > b
      [] op = "GE" -> a >= b

\* C22: each comparison operator (==, !=, <, <=, >, >=) on two Integers a and
\* b is lowered to one instruction that, in a single terminating step, pops
\* both operands and pushes the Bool of a op b, the left operand first.
C22_ComparisonPushesBool ==
    [][\A op \in CompareOps : \A a \in Operands : \A b \in Operands :
        (/\ ast = BinaryProgram(op, a, b)
         /\ Running
         /\ HasLabel(code.labels, "main")
         /\ rbi = LabelIndex(code.labels, "main") + 2
         /\ stack = <<Integer(b), Integer(a)>>
         /\ rsi = 2
         /\ executed'.at = rbi)
            => (/\ Current.op \in {"EQUALS", "LESSER", "EQLESS", "GREATER", "EQGREAT"}
                /\ vm_status' = "running"
                /\ rsi' = 1
                /\ StackAt(stack', 0) = Bool(CompareHolds(op, a, b)))]_vars

\* C23: every frame was created by a CALL at the instruction index c it
\* records.  When RET(true) executes in a frame that recorded index c and
\* operand-stack index s, afterwards the frame stack is one frame shorter,
\* the next instruction is c + 1, the stack index is s + 1 and the top of the
\* stack is the returned value; after RET(false) the stack index is s.
C23_RetRestoresCaller ==
    /\ [](Running =>
            \A n \in 1..Len(stack_frames) :
                /\ stack_frames[n].bytecode_return_index \in 0..(Len(code.bytecode) - 1)
                /\ code.bytecode[stack_frames[n].bytecode_return_index + 1].op = "CALL"
                /\ code.bytecode[stack_frames[n].bytecode_return_index + 1].name
                        = stack_frames[n].name)
    /\ [][(Fetch("RET") /\ stack_frames # <<>> /\ executed'.at = rbi
                /\ (Current.has_value => rsi >= 1))
            => /\ vm_status' = "running"
               /\ stack_frames' = SubSeq(stack_frames, 1, Len(stack_frames) - 1)
               /\ rbi' = TopFrame(Machine).bytecode_return_index + 1
               /\ IF Current.has_value
                  THEN /\ rsi' = TopFrame(Machine).stack_return_index + 1
                       /\ StackAt(stack', rsi' - 1) = StackAt(stack, rsi - 1)
                  ELSE rsi' = TopFrame(Machine).stack_return_index]_vars

\* A callee with arguments has returned a value to main: the value is on
\* top of the stack index the CALL recorded, and main's frame is the top one.
C23_Witness ==
    /\ Running
    /\ executed.instr = RET(TRUE)
    /\ executed.st = "ok"
    /\ Len(stack_frames) = 1
    /\ stack_frames[1].name = "main"
    /\ rbi > 2
    /\ code.bytecode[rbi].op = "CALL"
    /\ code.bytecode[rbi].argc > 0
    /\ rsi >= 1

\* C24: in every Code compile_from_ast produces, `_start` is bound to index 0
\* where CALL main and EXIT sit, no label name occurs twice in the label list,
\* and every label a JMPTO or JITL names has exactly one entry in the list.
C24_LabelsResolveOnce ==
    pc \in {"compiled", "machine"} =>
        /\ LabelEntries(code.labels, "_start") = {1}
        /\ code.labels[1] = <<"_start", 0>>
        /\ SubSeq(code.bytecode, 1, 2) = <<CALL("main", 0), Instr("EXIT")>>
        /\ \A n \in 1..Len(code.labels) :
                LabelEntries(code.labels, code.labels[n][1]) = {n}
        /\ \A n \in 1..Len(code.bytecode) :
                code.bytecode[n].op \in {"JMPTO", "JITL"} =>
                    Cardinality(LabelEntries(code.labels, code.bytecode[n].label)) = 1

\* C25: an Instance expression (new T(args)) compiles to the code of its
\* arguments followed by INSTANCE(T, argc), so that executing it leaves
\* exactly one Ref to a new heap object on the operand stack (here taken by
\* the declaration of x).
C25_InstanceCompilesToInstanceOp ==
    \A a \in Operands :
        (ast = InstanceProgram(a) /\ pc \in {"compiled", "machine"}) =>
            /\ HasLabel(code.labels, "main")
            /\ SubSeq(code.bytecode, LabelIndex(code.labels, "main") + 1,
                      LabelIndex(code.labels, "main") + 2)
                    = <<PUSH(Integer(a)), InstanceOp(array(INTEGER_TYPE), 1)>>
            /\ (executed.instr.op = "DEFVAR" =>
                    /\ executed.st = "ok"
                    /\ rsi = 0
                    /\ Locals["x"].t = "Ref")

\* The frames below the top one.
Callers == SubSeq(stack_frames, 1, Len(stack_frames) - 1)

\* C26: DEFVAR, SAVEVARLOCAL, DROPVAR and GETVARLOCAL read and write only the
\* local variables of the topmost frame: no step changes a frame below the
\* top one and a CALL leaves every frame as it is, a callee that reads a name
\* only its caller has bound fails on an undefined variable, and once the
\* callee has returned the caller's local variables are what they were
\* immediately before the CALL.
C26_LocalsBelongToTopFrame ==
    /\ [][Running =>
            /\ Len(stack_frames') >= Len(stack_frames) - 1
            /\ SubSeq(stack_frames', 1, Len(stack_frames) - 1) = Callers
            /\ (Fetch("CALL") /\ Len(stack_frames') > Len(stack_frames))
                    => SubSeq(stack_frames', 1, Len(stack_frames)) = stack_frames]_vars
    /\ [][(Fetch("GETVARLOCAL") /\ stack_frames # <<>> /\ executed'.at = rbi
                /\ Current.name \notin DOMAIN Locals)
            => (vm_status' = "error" /\ vm_fault' = UndefinedVariable)]_vars
    /\ [](\A a \in Operands : \A kind \in FrameKinds :
            (ast = FrameProgram(kind, a) /\ Running /\ Len(stack_frames) = 1
                    /\ executed.instr.op = "RET")
                => Locals = [n \in {"x"} |-> Integer(a)])

\* The callee has declared and set its own x and has returned to main,
\* whose x still holds the value main gave it.
C26_Witness ==
    /\ \E a \in Operands : ast = FrameProgram("own", a) /\ Locals = [n \in {"x"} |-> Integer(a)]
    /\ Running
    /\ Len(stack_frames) = 1
    /\ executed.instr = RET(TRUE)
    /\ StackAt(stack, rsi - 1).v = Locals["x"].v + 2

\* The value main first gave to x in a program of ShadowPrograms.
OuterValue == code.bytecode[3].v

\* C27: when a name bound in the enclosing scope is declared again inside an
\* if/else branch or a loop body (the checker gives a Warning only), the
\* name is still bound in the frame after the block and the read that
\* follows the block returns the value the outer variable had before it.
C27_ShadowedNameKeepsOuterValue ==
    (/\ ast \in ShadowPrograms
     /\ executed.instr = GETVARLOCAL("x")
     /\ executed.at = LastRead("x"))
        => /\ executed.st = "ok"
           /\ "x" \in DOMAIN Locals
           /\ StackAt(stack, rsi - 1) = OuterValue

\* The arithmetic expression of a program of ArithmeticPrograms.
ArithmeticExpr == ast[1].body[1].expr

\* The type the checker gives to that expression.
ArithmeticChecked ==
    type_eval_expression(ArithmeticExpr, [x \in {} |-> NullType],
                         [abra_types |-> abra_types,
                          global_functions |-> global_functions]).ty

\* C28: for a unary or binary arithmetic expression the checker accepts with
\* a non-Null type T (Integer op Integer, Float op Float, mixed Integer and
\* Float giving Float, String + String giving String, unary `-` giving
\* Integer or Float), the compiled code pushes a value whose runtime kind is
\* T, never Null and never a Bool.
C28_ArithmeticPushesCheckedType ==
    (/\ ast \in ArithmeticPrograms
     /\ mode = "pipeline"
     /\ pipeline_result = "Ok"
     /\ ArithmeticChecked # NullType
     /\ executed.instr.op \in {"ADD", "SUB", "MULT", "DIV", "NEGATE"}
     /\ executed.st = "ok")
        => /\ StackAt(stack, rsi - 1).t \notin {"Null", "Bool"}
           /\ StaticValueType(StackAt(stack, rsi - 1)) = ArithmeticChecked

\* The entries of a map object whose key is the value k.
EntriesOf(h, k) == {n \in DOMAIN h.ref_object.map : h.ref_object.map[n][1] = k}

\* C29: for a map object and a key k of any value kind, after set(k, v) a
\* get(k) returns v, and a set with a key the map already holds replaces the
\* existing entry: the map then has one entry for k.
C29_MapSetThenGet ==
    [][(/\ Fetch("SAVETOREF")
        /\ rsi >= 3
        /\ executed'.at = rbi
        /\ executed'.st = "ok"
        /\ RefOfSave.t = "Ref"
        /\ allocs[RefOfSave.towards].ref_object.kind = "Map")
            => /\ RefHeader_get(allocs'[RefOfSave.towards], StackAt(stack, rsi - 3))
                    = [st |-> "ok", fault |-> "none", v |-> StackAt(stack, rsi - 1)]
               /\ Cardinality(EntriesOf(allocs'[RefOfSave.towards],
                                        StackAt(stack, rsi - 3))) = 1]_vars

\* The bytecode indexes at which the bodies of the program start.
BodyStarts ==
    {LabelIndex(code.labels, Bodies(ast, 1)[k]) : k \in 1..Len(Bodies(ast, 1))}

\* The index after the last instruction of the body that starts at start:
\* the start of the next body, or the end of the bytecode.
BodyEnd(start) ==
    IF \E s \in BodyStarts : s > start
    THEN CHOOSE s \in BodyStarts : s > start /\ \A t \in BodyStarts : t > start => s <= t
    ELSE Len(code.bytecode)

\* C30: during a run of a checker-accepted program the instruction pointer
\* designates an instruction inside the body of the function whose frame is
\* on top of the call stack, or one of the two instructions of `_start` when
\* there is no frame: execution never runs off the end of a body into the
\* next function's code or past the end of the bytecode.
C30_PointerStaysInTopFrameBody ==
    (mode = "pipeline" /\ pipeline_result = "Ok" /\ Running)
        => IF stack_frames = <<>> THEN rbi \in {0, 1}
           ELSE /\ HasLabel(code.labels, TopFrame(Machine).name)
                /\ rbi >= LabelIndex(code.labels, TopFrame(Machine).name)
                /\ rbi < BodyEnd(LabelIndex(code.labels, TopFrame(Machine).name))

(***************************************************************************)
(* The Type values the relation is applied to: the base types and every    *)
(* type one constructor above them; the claims build unions of these.      *)
(***************************************************************************)
ClassNames == {"A", "B", "C"}

ClassName(i) == <<"A", "B", "C">>[i]

BaseTypes ==
    {NullType, INTEGER_TYPE, BOOL_TYPE} \cup {abra(ClassName(i)) : i \in 1..NumClasses}

Types ==
    BaseTypes
        \cup {array(t) : t \in BaseTypes}
        \cup {heap(t) : t \in BaseTypes}
        \cup {map(t1, t2) : t1 \in BaseTypes, t2 \in BaseTypes}
        \cup {or(t1, t2) : t1 \in BaseTypes, t2 \in BaseTypes}

\* The types is_subtype_of is asked about, for three drawn types s, t, u.
Asked(s, t, u) == {s, t, u, NullType, or(t, u), or(s, t)}

InitTypes ==
    /\ tyS \in Types
    /\ tyT \in Types
    /\ tyU \in Types
    /\ evaluated = FALSE
    /\ rel = [p \in {} |-> FALSE]
    /\ ast = <<>>
    /\ mode = "none"
    /\ MachineOff

\* Apply is_subtype_of to every pair of the asked types.
EvalSubtype ==
    /\ ~evaluated
    /\ evaluated' = TRUE
    /\ rel' = [p \in Asked(tyS, tyT, tyU) \X Asked(tyS, tyT, tyU) |->
                    is_subtype_of(p[1], p[2])]
    /\ UNCHANGED <<tyS, tyT, tyU, ast, mode, code, pc, checkVars, vmVars>>

NextTypes == EvalSubtype

SpecTypes == InitTypes /\ [][NextTypes]_vars

sub(a, b) == rel[<<a, b>>]

\* C5: is_subtype_of is reflexive for every Type, and Null is a subtype of
\* every type and every type a subtype of Null.
C5_ReflexiveNullBoth ==
    evaluated =>
        \A x \in Asked(tyS, tyT, tyU) :
            sub(x, x) /\ sub(NullType, x) /\ sub(x, NullType)

C5_Witness ==
    /\ evaluated
    /\ tyS.k = "Map"
    /\ tyT.k = "Or" /\ tyT.a # tyT.b
    /\ sub(or(tyT, tyU), or(tyT, tyU))
    /\ sub(tyS, NullType)

\* C6 as stated: S <: Or(T1, T2) exactly when S <: T1 or S <: T2.
C6_UnionRightIff ==
    evaluated => (sub(tyS, or(tyT, tyU)) <=> (sub(tyS, tyT) \/ sub(tyS, tyU)))

\* C6 amended: S <: Or(T1, T2) exactly when S is Or(T1, T2) itself, or
\* S <: T1, or S <: T2.
C6_UnionRightIffOrSame ==
    evaluated =>
        (sub(tyS, or(tyT, tyU)) <=>
            (tyS = or(tyT, tyU) \/ sub(tyS, tyT) \/ sub(tyS, tyU)))

C6_Witness ==
    /\ evaluated
    /\ tyS = INTEGER_TYPE /\ tyT = BOOL_TYPE /\ tyU = INTEGER_TYPE
    /\ sub(tyS, or(tyT, tyU))
    /\ ~sub(tyS, tyT)

C8_PartialOrder ==
    evaluated =>
        /\ (sub(tyS, tyT) /\ sub(tyT, tyS)) => tyS = tyT
        /\ (sub(tyS, tyT) /\ sub(tyT, tyU)) => sub(tyS, tyU)

RECURSIVE NullFree(_)
\* No Null anywhere inside the type.
NullFree(t) ==
    CASE t.k = "Null" -> FALSE
      [] t.k \in {"Primitive", "Abra"} -> TRUE
      [] t.k \in {"Array", "HeapValue"} -> NullFree(t.t)
      [] t.k = "Map" -> NullFree(t.key) /\ NullFree(t.val)
      [] t.k = "Or" -> NullFree(t.a) /\ NullFree(t.b)

RECURSIVE UnionFree(_)
\* No union anywhere inside the type.
UnionFree(t) ==
    CASE t.k \in {"Null", "Primitive", "Abra"} -> TRUE
      [] t.k \in {"Array", "HeapValue"} -> UnionFree(t.t)
      [] t.k = "Map" -> UnionFree(t.key) /\ UnionFree(t.val)
      [] t.k = "Or" -> FALSE

\* C8 amended: is_subtype_of is reflexive; it is transitive over the types
\* that contain no Null, and antisymmetric over the types that contain
\* neither Null nor a union.
C8_PreorderNullFree ==
    evaluated =>
        /\ sub(tyS, tyS)
        /\ (NullFree(tyS) /\ NullFree(tyT) /\ NullFree(tyU)) =>
                ((sub(tyS, tyT) /\ sub(tyT, tyU)) => sub(tyS, tyU))
        /\ (NullFree(tyS) /\ NullFree(tyT) /\ UnionFree(tyS) /\ UnionFree(tyT)) =>
                ((sub(tyS, tyT) /\ sub(tyT, tyS)) => tyS = tyT)

C8_Witness ==
    /\ evaluated
    /\ NullFree(tyS) /\ NullFree(tyT) /\ NullFree(tyU)
    /\ tyS # tyT /\ tyT # tyU /\ tyS # tyU
    /\ sub(tyS, tyT) /\ sub(tyT, tyU) /\ sub(tyS, tyU)
    /\ ~sub(tyU, tyT)

====
